---- MODULE Spec2Model ----
(***************************************************************************)
(* Model of the Cube ADBC driver core: NativeClient (native_client.cc), a  *)
(* length-framed request/response engine over a TCP socket, and the part   *)
(* of CubeArrowReader (arrow_reader.cc) that ExecuteQuery drives.          *)
(*                                                                         *)
(* The socket is modelled by scripts: what each read()/write() system call *)
(* returns is an input chosen by the environment, and the loops of         *)
(* ReadExact/WriteExact run over those scripts as the code runs over the   *)
(* system calls.                                                           *)
(***************************************************************************)
EXTENDS Integers, Sequences, FiniteSets, TLC

\* ------------------------------------------------------------------ bounds
\* Most response messages one query dispatches before the server must end it.
MaxMsgs == 2

\* ------------------------------------------------- protocol constants
PROTOCOL_VERSION == 1
MaxMessageLength == 100 * 1024 * 1024

MsgHandshakeRequest == 1
MsgHandshakeResponse == 2
MsgAuthRequest == 3
MsgAuthResponse == 4
MsgQueryRequest == 5
MsgQueryResponseSchema == 6
MsgQueryResponseBatch == 7
MsgQueryComplete == 8
MsgError == 255

ARROW_IPC_MAGIC == <<255, 255, 255, 255>>

\* AdbcStatusCode values used by NativeClient, and the errno values that
\* CubeArrowReader::Init returns through ExecuteQuery.
ADBC_STATUS_OK == "OK"
ADBC_STATUS_UNKNOWN == "UNKNOWN"
ADBC_STATUS_INVALID_STATE == "INVALID_STATE"
ADBC_STATUS_INVALID_DATA == "INVALID_DATA"
ADBC_STATUS_IO == "IO"
ADBC_STATUS_UNAUTHENTICATED == "UNAUTHENTICATED"
NANOARROW_OK == "OK"
EINVAL == "EINVAL"

NoError == <<>>

\* ------------------------------------------------------------ helpers
Min(a, b) == IF a < b THEN a ELSE b

\* uint32_t big-endian value of a 4-byte buffer.  TLC integers are 32-bit
\* signed, so the model only uses prefixes whose first byte is below 128.
DecodeLength(length_buf) ==
    (length_buf[1] * 16777216 + length_buf[2] * 65536
       + length_buf[3] * 256 + length_buf[4])

\* The four big-endian bytes of a length below 2^31.
EncodeLength(n) ==
    << (n \div 16777216) % 256, (n \div 65536) % 256, (n \div 256) % 256, n % 256 >>

\* Outcomes of one read()/write() system call.
Got(k) == [n |-> k, errno |-> "NONE"]
Eof == [n |-> 0, errno |-> "NONE"]
Eintr == [n |-> -1, errno |-> "EINTR"]
Econnreset == [n |-> -1, errno |-> "ECONNRESET"]
Epipe == [n |-> -1, errno |-> "EPIPE"]

\* NativeClient::ReadExact: loop over read() until `length` bytes arrived.
\* `reads` is what the successive read() calls return; a script that runs
\* out is a peer that closed the connection.
RECURSIVE ReadExactFrom(_, _, _)
ReadExactFrom(reads, total_read, length) ==
    IF total_read >= length
      THEN [status |-> ADBC_STATUS_OK, total_read |-> total_read, error |-> NoError]
    ELSE IF reads = <<>>
      THEN [status |-> ADBC_STATUS_IO, total_read |-> total_read,
            error |-> <<"Connection closed by server">>]
    ELSE LET r == Head(reads) IN
      IF r.n < 0
        THEN IF r.errno = "EINTR"
               THEN ReadExactFrom(Tail(reads), total_read, length)
               ELSE [status |-> ADBC_STATUS_IO, total_read |-> total_read,
                     error |-> <<"Socket read error: ", r.errno>>]
      ELSE IF r.n = 0
        THEN [status |-> ADBC_STATUS_IO, total_read |-> total_read,
              error |-> <<"Connection closed by server">>]
      ELSE ReadExactFrom(Tail(reads),
                         total_read + Min(r.n, length - total_read), length)

\* ReadExact with the end-of-file test left out: the loop just stops.
RECURSIVE ReadExactFromEofOk(_, _, _)
ReadExactFromEofOk(reads, total_read, length) ==
    IF total_read >= length \/ reads = <<>> \/ Head(reads).n = 0
      THEN [status |-> ADBC_STATUS_OK, total_read |-> total_read, error |-> NoError]
    ELSE LET r == Head(reads) IN
      IF r.n < 0
        THEN IF r.errno = "EINTR"
               THEN ReadExactFromEofOk(Tail(reads), total_read, length)
               ELSE [status |-> ADBC_STATUS_IO, total_read |-> total_read,
                     error |-> <<"Socket read error: ", r.errno>>]
      ELSE ReadExactFromEofOk(Tail(reads),
                              total_read + Min(r.n, length - total_read), length)

ReadExactEofOk(reads, length) == ReadExactFromEofOk(reads, 0, length)

ReadExact(reads, length) == ReadExactFrom(reads, 0, length)

\* NativeClient::WriteExact: loop over write() until `length` bytes left.
RECURSIVE WriteExactFrom(_, _, _)
WriteExactFrom(writes, total_written, length) ==
    IF total_written >= length
      THEN [status |-> ADBC_STATUS_OK, total_written |-> total_written, error |-> NoError]
    ELSE IF writes = <<>>
      THEN [status |-> ADBC_STATUS_IO, total_written |-> total_written,
            error |-> <<"Socket write error: ", "EPIPE">>]
    ELSE LET r == Head(writes) IN
      IF r.n < 0
        THEN IF r.errno = "EINTR"
               THEN WriteExactFrom(Tail(writes), total_written, length)
               ELSE [status |-> ADBC_STATUS_IO, total_written |-> total_written,
                     error |-> <<"Socket write error: ", r.errno>>]
      ELSE WriteExactFrom(Tail(writes),
                          total_written + Min(r.n, length - total_written), length)

WriteExact(writes, length) == WriteExactFrom(writes, 0, length)

\* NativeClient::WriteMessage: the encoded request is written as it is.
WriteMessage(writes, data) == WriteExact(writes, Len(data))

\* Is the declared frame length one that ReadMessage goes on to read?
LengthAccepted(length) == ~(length = 0 \/ length > MaxMessageLength)

\* NativeClient::ReadMessage.  A frame on the wire is
\*   [length_buf: the 4 prefix bytes, hreads/preads: what the read() calls
\*    return while the prefix / the payload is read, msg: the payload].
\* The result is empty on every failure, else prefix + payload.
ReadMessage(frame) ==
    LET h == ReadExact(frame.hreads, 4) IN
    IF h.status # ADBC_STATUS_OK
      THEN [empty |-> TRUE, error |-> h.error, hdr_read |-> h.total_read,
            length |-> -1, payload_read |-> 0, msg |-> frame.msg]
    ELSE LET length == DecodeLength(frame.length_buf) IN
      IF ~LengthAccepted(length)
        THEN [empty |-> TRUE, error |-> <<"Invalid message length: ", ToString(length)>>,
              hdr_read |-> h.total_read, length |-> length, payload_read |-> 0,
              msg |-> frame.msg]
      ELSE LET p == ReadExact(frame.preads, length) IN
        IF p.status # ADBC_STATUS_OK
          THEN [empty |-> TRUE, error |-> p.error, hdr_read |-> h.total_read,
                length |-> length, payload_read |-> p.total_read,
                msg |-> frame.msg]
          ELSE [empty |-> FALSE, error |-> NoError, hdr_read |-> h.total_read,
                length |-> length, payload_read |-> p.total_read,
                msg |-> frame.msg]

\* ----------------------------------------------------- wire messages
\* Arrow IPC byte streams the server puts into its query responses.
IpcSchemaMessage == ARROW_IPC_MAGIC \o <<8, 0, 0, 0>> \o <<1, 1, 1, 1, 1, 1, 1, 1>>
IpcBatchMessage ==
    ARROW_IPC_MAGIC \o <<8, 0, 0, 0>> \o <<2, 2, 2, 2, 2, 2, 2, 2>>
                    \o <<42, 0, 0, 0, 0, 0, 0, 0>>
IpcEos == ARROW_IPC_MAGIC \o <<0, 0, 0, 0>>
SchemaOnlyStream == IpcSchemaMessage \o IpcEos
BatchStream == IpcSchemaMessage \o IpcBatchMessage \o IpcEos

SchemaChunks == { SchemaOnlyStream }
BatchChunks == { <<>>, <<1, 2, 3>>, BatchStream }

\* Payloads (type byte + body) a server can send.  `wf` says whether the
\* body decodes; `size` is the payload's length in bytes.
HandshakeResponses ==
    { [type |-> MsgHandshakeResponse, wf |-> TRUE, size |-> 15,
       version |-> v, server_version |-> "cube-1"] : v \in {PROTOCOL_VERSION, 2} }
AuthResponses ==
    { [type |-> MsgAuthResponse, wf |-> TRUE, size |-> 10,
       success |-> ok, session_id |-> sid] : ok \in BOOLEAN, sid \in {"", "sess-1"} }
SchemaResponses ==
    { [type |-> MsgQueryResponseSchema, wf |-> TRUE, size |-> 5 + Len(b),
       bytes |-> b] : b \in SchemaChunks }
BatchResponses ==
    { [type |-> MsgQueryResponseBatch, wf |-> TRUE, size |-> 5 + Len(b),
       bytes |-> b] : b \in BatchChunks }
CompleteResponses ==
    { [type |-> MsgQueryComplete, wf |-> TRUE, size |-> 9, rows_affected |-> 1] }
ErrorResponses ==
    { [type |-> MsgError, wf |-> TRUE, size |-> 20,
       code |-> "42P01", message |-> m] : m \in {"", "no such table"} }
\* A type byte no case of the dispatch names, with a bytes field as body.
UnknownResponses ==
    { [type |-> 9, wf |-> TRUE, size |-> 8, bytes |-> <<1, 2, 3>>] }
\* A known type byte whose body is cut short, so that Decode throws.
MalformedResponses ==
    { [type |-> t, wf |-> FALSE, size |-> 1] :
        t \in {MsgHandshakeResponse, MsgAuthResponse, MsgQueryResponseSchema,
               MsgQueryResponseBatch, MsgQueryComplete, MsgError} }

Messages ==
    HandshakeResponses \cup AuthResponses \cup SchemaResponses \cup BatchResponses
      \cup CompleteResponses \cup ErrorResponses \cup UnknownResponses
      \cup MalformedResponses

\* A frame that arrives whole, in one read() per part.
FrameOf(msg) ==
    [length_buf |-> EncodeLength(msg.size), hreads |-> <<Got(4)>>,
     preads |-> <<Got(msg.size)>>, msg |-> msg]

SampleBatch == [type |-> MsgQueryResponseBatch, wf |-> TRUE,
                size |-> 5 + Len(BatchStream), bytes |-> BatchStream]

\* Frames that arrive in pieces, with interrupted calls, or not at all.
FaultFrames ==
    LET f == FrameOf(SampleBatch) IN
    { [f EXCEPT !.hreads = <<Eintr, Got(1), Got(3)>>,
                !.preads = <<Got(3), Eintr, Got(f.msg.size - 3)>>],
      [f EXCEPT !.hreads = <<Eof>>],
      [f EXCEPT !.hreads = <<Got(2), Eof>>],
      [f EXCEPT !.hreads = <<Got(3), Econnreset>>],
      [f EXCEPT !.preads = <<Eof>>],
      [f EXCEPT !.preads = <<Got(f.msg.size - 1), Eof>>],
      [f EXCEPT !.preads = <<Got(1), Econnreset>>],
      [f EXCEPT !.length_buf = <<0, 0, 0, 0>>],
      [f EXCEPT !.length_buf = EncodeLength(MaxMessageLength + 1)],
      [f EXCEPT !.length_buf = <<127, 255, 255, 255>>],
      [f EXCEPT !.length_buf = EncodeLength(MaxMessageLength),
                !.preads = <<Got(MaxMessageLength)>>],
      [f EXCEPT !.length_buf = EncodeLength(MaxMessageLength),
                !.preads = <<Got(MaxMessageLength - 1), Eof>>],
      [f EXCEPT !.length_buf = <<0, 0, 0, 1>>, !.preads = <<Got(1)>>,
                !.msg = [type |-> MsgQueryResponseBatch, wf |-> FALSE, size |-> 1]] }

Frames == { FrameOf(m) : m \in Messages } \cup FaultFrames

\* What the peer sends once the connection is gone: nothing.
ClosedFrame == [FrameOf(SampleBatch) EXCEPT !.hreads = <<Eof>>]

\* Decode of a response body (native_protocol.cc): it yields the message
\* when the type byte is the expected one and the body is complete, and
\* throws otherwise.
DecodeThrows(expected, msg) == msg.type # expected \/ ~msg.wf

\* Encode of a request (native_protocol.cc): length prefix, type byte, then
\* each string as u32 big-endian length + bytes.
EncodeString(s) == EncodeLength(Len(s)) \o s
EncodeFrame(payload) == EncodeLength(Len(payload)) \o payload
EncodeHandshakeRequest(version) ==
    EncodeFrame(<<MsgHandshakeRequest>> \o EncodeLength(version))
EncodeAuthRequest(token, database) ==
    EncodeFrame(<<MsgAuthRequest>> \o EncodeString(token) \o EncodeString(database))
EncodeQueryRequest(sql) ==
    EncodeFrame(<<MsgQueryRequest>> \o EncodeString(sql))

\* What the write() calls return while a request of L bytes is written.
WriteScripts(L) ==
    { <<Got(L)>>, <<Eintr, Got(1), Got(L)>>, <<Epipe>>, <<Got(1), Epipe>> }

\* Caller inputs.
Tokens == { <<116, 111, 107>> }
Databases == { <<>> }
Sqls == { <<>>, <<83, 69, 76>> }

\* ------------------------------------------------------------- state
VARIABLES
    socket_fd_,        \* NativeClient::socket_fd_ (-1 when there is no socket)
    authenticated_,    \* NativeClient::authenticated_
    session_id_,       \* NativeClient::session_id_
    session_id_set,    \* history: session_id_ was assigned and not cleared since
    server_version_,   \* NativeClient::server_version_
    peer_open,         \* the TCP peer still answers on the client's socket
    pc,                \* "idle", or "draining" inside ExecuteQuery's loop
    arrow_ipc_data,    \* ExecuteQuery's local accumulator
    received,          \* history: the messages ExecuteQuery dispatched, in order
    frames_read,       \* ReadMessage calls made by the current/latest operation
    last_read,         \* outcome of the latest ReadMessage of that operation
    wire_out,          \* bytes the current/latest operation wrote to the socket
    reader,            \* the CubeArrowReader the latest ExecuteQuery made
    out,               \* the caller's ArrowArrayStream
    result,            \* what the latest operation returned
    fd_closes,         \* close() calls the latest operation made on the socket
    array_out,         \* the consumer's ArrowArray, as the latest get_next left it
    schema_out,        \* the consumer's ArrowSchema, as the latest get_schema left it
    yielded,           \* history: the values of the arrays get_next produced
    eos_reports,       \* history: how often get_next reported end-of-stream
    release_calls,     \* history: how often the stream's release callback ran
    instances,         \* the CubeArrowReaders of one process, when there are several
    debug_file,        \* the file /tmp/cube_arrow_ipc_data.bin
    threads,           \* the threads inside ExecuteQuery on one client, when there are several
    channel,           \* the response frames in flight on that client's socket
    connection         \* a CubeConnection, its impl and the libpq connections opened

vars == << socket_fd_, authenticated_, session_id_, session_id_set,
           server_version_, peer_open, pc, arrow_ipc_data, received,
           frames_read, last_read, wire_out, reader, out, result, fd_closes,
           array_out, schema_out, yielded, eos_reports, release_calls,
           instances, debug_file, threads, channel, connection >>

client == << socket_fd_, authenticated_, session_id_, session_id_set,
             server_version_ >>

consumer == << array_out, schema_out, yielded, eos_reports, release_calls >>

\* What only the specifications of several readers, of several threads and
\* of the CubeConnection use.
concurrent == << instances, debug_file, threads, channel, connection >>

\* The identities of the readers of a process and of the threads of a client.
Instances == {1, 2}
Threads == {1, 2}

\* No CubeConnection object.
NullImpl ==
    [present |-> FALSE, host_ |-> "", port_ |-> "", conn_ |-> 0,
     connected_ |-> FALSE]

NoConnection ==
    [object |-> "none", impl |-> NullImpl, pq |-> <<>>, null_release_calls |-> 0]

\* No file at the debug path; no second reader and no second thread.
NoFile == [exists |-> FALSE, content |-> <<>>, writers |-> {}]
NoConcurrency ==
    /\ instances = [i \in Instances |-> "none"]
    /\ debug_file = NoFile
    /\ threads = [t \in Threads |-> "none"]
    /\ channel = <<>>
    /\ connection = NoConnection

NoRead == [called |-> FALSE, empty |-> TRUE, error |-> NoError, hdr_read |-> 0,
           length |-> -1, payload_read |-> 0,
           msg |-> [type |-> 0, wf |-> FALSE, size |-> 0]]

\* What the state keeps of a ReadMessage outcome.
ReadLog(rd) ==
    [called |-> TRUE, empty |-> rd.empty, error |-> rd.error,
     hdr_read |-> rd.hdr_read, length |-> rd.length,
     payload_read |-> rd.payload_read, msg |-> rd.msg]

\* An ArrowSchema after ArrowSchemaInit, and the one Init builds: a struct
\* with one int64 child named "test".  `owner` says whose memory its
\* buffers are.
EmptySchema == [release |-> "null", format |-> "", children |-> <<>>,
                owner |-> "reader"]
StructSchema ==
    [release |-> "ArrowSchemaRelease", format |-> "+s",
     children |-> << [format |-> "l", name |-> "test",
                      flags |-> "ARROW_FLAG_NULLABLE"] >>,
     owner |-> "reader"]

NoReader == [constructed |-> FALSE, alive |-> FALSE, buffer_ |-> <<>>,
             offset_ |-> 0, schema_initialized_ |-> FALSE, finished_ |-> FALSE,
             schema_ |-> EmptySchema, deletes |-> 0, inits |-> 0]

\* The consumer's output structures before a call fills them.
CallerArray == [release |-> "caller", length |-> 0, null_count |-> 0,
                n_children |-> 0, children_null_count |-> <<>>,
                value |-> <<>>]
CallerSchema == [release |-> "caller", format |-> "", children |-> <<>>,
                 owner |-> "caller"]

CallerStream == [release |-> "caller", private_data |-> "caller"]

Returned(op, status, error) == [op |-> op, status |-> status, error |-> error]

\* NativeClient::IsConnected (native_client.h)
IsConnected == socket_fd_ >= 0

\* The frames and write outcomes the socket can produce in this state.
FramesNow == IF peer_open THEN Frames ELSE {ClosedFrame}
WritesNow(L) == IF peer_open THEN WriteScripts(L) ELSE {<<Epipe>>}

\* A failed read or write means the connection is gone.
StillOpen(w, rd) ==
    /\ w.status = ADBC_STATUS_OK
    /\ (rd.empty => rd.hdr_read = 4 /\ ~LengthAccepted(rd.length))

Init ==
    /\ socket_fd_ = -1
    /\ authenticated_ = FALSE
    /\ session_id_ = ""
    /\ session_id_set = FALSE
    /\ server_version_ = ""
    /\ peer_open = FALSE
    /\ pc = "idle"
    /\ arrow_ipc_data = <<>>
    /\ received = <<>>
    /\ frames_read = 0
    /\ last_read = NoRead
    /\ wire_out = <<>>
    /\ reader = NoReader
    /\ out = CallerStream
    /\ result = Returned("none", ADBC_STATUS_OK, NoError)
    /\ fd_closes = 0
    /\ array_out = CallerArray
    /\ schema_out = CallerSchema
    /\ yielded = <<>>
    /\ eos_reports = 0
    /\ release_calls = 0
    /\ NoConcurrency

\* ------------------------------------------------------------- Close
\* Close that closes the socket and forgets to clear the session state.
CloseKeepsSession ==
    /\ pc = "idle"
    /\ socket_fd_' = -1
    /\ peer_open' = FALSE
    /\ frames_read' = 0
    /\ last_read' = NoRead
    /\ wire_out' = <<>>
    /\ result' = Returned("Close", ADBC_STATUS_OK, NoError)
    /\ fd_closes' = (IF socket_fd_ >= 0 THEN 1 ELSE 0)
    /\ UNCHANGED << authenticated_, session_id_, session_id_set, server_version_,
                    pc, arrow_ipc_data, received, reader, out,
                    consumer, concurrent >>

\* Close that calls close() whether or not there is a socket.
CloseUnguarded ==
    /\ pc = "idle"
    /\ socket_fd_' = -1
    /\ authenticated_' = FALSE
    /\ session_id_' = ""
    /\ session_id_set' = FALSE
    /\ server_version_' = ""
    /\ peer_open' = FALSE
    /\ frames_read' = 0
    /\ last_read' = NoRead
    /\ wire_out' = <<>>
    /\ result' = Returned("Close", ADBC_STATUS_OK, NoError)
    /\ fd_closes' = 1
    /\ UNCHANGED << pc, arrow_ipc_data, received, reader, out,
                    consumer, concurrent >>

\* NativeClient::Close
Close ==
    /\ pc = "idle"
    /\ socket_fd_' = -1
    /\ authenticated_' = FALSE
    /\ session_id_' = ""
    /\ session_id_set' = FALSE
    /\ server_version_' = ""
    /\ peer_open' = FALSE
    /\ frames_read' = 0
    /\ last_read' = NoRead
    /\ wire_out' = <<>>
    /\ result' = Returned("Close", ADBC_STATUS_OK, NoError)
    /\ fd_closes' = (IF socket_fd_ >= 0 THEN 1 ELSE 0)
    /\ UNCHANGED << pc, arrow_ipc_data, received, reader, out,
                    consumer, concurrent >>

\* ----------------------------------------------------------- Connect
\* A handshake that accepts whatever version the server answers with.
PerformHandshakeAnyVersion(writes, frame) ==
    LET data == EncodeHandshakeRequest(PROTOCOL_VERSION)
        w == WriteMessage(writes, data)
        rd == ReadMessage(frame)
        base == [wrote |-> SubSeq(data, 1, w.total_written), reads |-> 0,
                 log |-> NoRead, server_version |-> "", open |-> FALSE]
    IN
    IF w.status # ADBC_STATUS_OK
      THEN [base EXCEPT !.open = FALSE] @@ [status |-> w.status, error |-> w.error]
    ELSE IF rd.empty
      THEN [base EXCEPT !.reads = 1, !.log = ReadLog(rd), !.open = StillOpen(w, rd)]
             @@ [status |-> ADBC_STATUS_IO, error |-> <<"Empty handshake response">>]
    ELSE IF DecodeThrows(MsgHandshakeResponse, rd.msg)
      THEN [base EXCEPT !.reads = 1, !.log = ReadLog(rd), !.open = TRUE]
             @@ [status |-> ADBC_STATUS_INVALID_DATA,
                 error |-> <<"Failed to decode handshake response: ">>]
    ELSE [base EXCEPT !.reads = 1, !.log = ReadLog(rd), !.open = TRUE,
                      !.server_version = rd.msg.server_version]
           @@ [status |-> ADBC_STATUS_OK, error |-> NoError]

\* NativeClient::PerformHandshake: write the request, read and decode the
\* response, compare the versions.
PerformHandshake(writes, frame) ==
    LET data == EncodeHandshakeRequest(PROTOCOL_VERSION)
        w == WriteMessage(writes, data)
        rd == ReadMessage(frame)
        base == [wrote |-> SubSeq(data, 1, w.total_written), reads |-> 0,
                 log |-> NoRead, server_version |-> "", open |-> FALSE]
    IN
    IF w.status # ADBC_STATUS_OK
      THEN [base EXCEPT !.open = FALSE] @@ [status |-> w.status, error |-> w.error]
    ELSE IF rd.empty
      THEN [base EXCEPT !.reads = 1, !.log = ReadLog(rd), !.open = StillOpen(w, rd)]
             @@ [status |-> ADBC_STATUS_IO, error |-> <<"Empty handshake response">>]
    ELSE IF DecodeThrows(MsgHandshakeResponse, rd.msg)
      THEN [base EXCEPT !.reads = 1, !.log = ReadLog(rd), !.open = TRUE]
             @@ [status |-> ADBC_STATUS_INVALID_DATA,
                 error |-> <<"Failed to decode handshake response: ">>]
    ELSE IF rd.msg.version # PROTOCOL_VERSION
      THEN [base EXCEPT !.reads = 1, !.log = ReadLog(rd), !.open = TRUE]
             @@ [status |-> ADBC_STATUS_INVALID_DATA,
                 error |-> <<"Protocol version mismatch. Client: ",
                             ToString(PROTOCOL_VERSION), ", Server: ",
                             ToString(rd.msg.version)>>]
    ELSE [base EXCEPT !.reads = 1, !.log = ReadLog(rd), !.open = TRUE,
                      !.server_version = rd.msg.server_version]
           @@ [status |-> ADBC_STATUS_OK, error |-> NoError]

\* A state check that lets Connect run on a client that has a socket.
ConnectStateCheckNone ==
    [rejected |-> FALSE, status |-> ADBC_STATUS_OK, error |-> NoError]

\* The state check that opens Connect.
ConnectStateCheck ==
    IF IsConnected
      THEN [rejected |-> TRUE, status |-> ADBC_STATUS_INVALID_STATE,
            error |-> <<"Already connected">>]
    ELSE [rejected |-> FALSE, status |-> ADBC_STATUS_OK, error |-> NoError]

\* A setup that returns from its failures without closing the socket.
ConnectSetupLeaks(socket_ok, resolve_ok, connect_ok) ==
    IF ~socket_ok
      THEN [failed |-> TRUE, socket_fd |-> -1, closes |-> 0,
            error |-> <<"Failed to create socket: ">>]
    ELSE IF ~resolve_ok
      THEN [failed |-> TRUE, socket_fd |-> 3, closes |-> 0,
            error |-> <<"Failed to resolve hostname: ">>]
    ELSE IF ~connect_ok
      THEN [failed |-> TRUE, socket_fd |-> 3, closes |-> 0,
            error |-> <<"Failed to connect to ">>]
    ELSE [failed |-> FALSE, socket_fd |-> 3, closes |-> 0, error |-> NoError]

\* Connect between its state check and the handshake: socket(),
\* gethostbyname() and connect(); the last two close the socket and reset
\* socket_fd_ when they fail.
ConnectSetup(socket_ok, resolve_ok, connect_ok) ==
    IF ~socket_ok
      THEN [failed |-> TRUE, socket_fd |-> -1, closes |-> 0,
            error |-> <<"Failed to create socket: ">>]
    ELSE IF ~resolve_ok
      THEN [failed |-> TRUE, socket_fd |-> -1, closes |-> 1,
            error |-> <<"Failed to resolve hostname: ">>]
    ELSE IF ~connect_ok
      THEN [failed |-> TRUE, socket_fd |-> -1, closes |-> 1,
            error |-> <<"Failed to connect to ">>]
    ELSE [failed |-> FALSE, socket_fd |-> 3, closes |-> 0, error |-> NoError]

\* NativeClient::Connect
Connect ==
    /\ pc = "idle"
    /\ \E socket_ok \in BOOLEAN, resolve_ok \in BOOLEAN, connect_ok \in BOOLEAN :
         LET s == ConnectSetup(socket_ok, resolve_ok, connect_ok) IN
         IF ConnectStateCheck.rejected
           THEN /\ result' = Returned("Connect", ConnectStateCheck.status,
                                      ConnectStateCheck.error)
                /\ frames_read' = 0 /\ last_read' = NoRead /\ wire_out' = <<>>
                /\ fd_closes' = 0
                /\ UNCHANGED << client, peer_open >>
         ELSE IF s.failed
           THEN /\ socket_fd_' = s.socket_fd
                /\ result' = Returned("Connect", ADBC_STATUS_IO, s.error)
                /\ frames_read' = 0 /\ last_read' = NoRead /\ wire_out' = <<>>
                /\ fd_closes' = s.closes
                /\ UNCHANGED << authenticated_, session_id_, session_id_set,
                                server_version_, peer_open >>
         ELSE \E writes \in WriteScripts(Len(EncodeHandshakeRequest(PROTOCOL_VERSION))),
                 frame \in Frames :
                LET h == PerformHandshake(writes, frame) IN
                /\ frames_read' = h.reads /\ last_read' = h.log /\ wire_out' = h.wrote
                /\ result' = Returned("Connect", h.status, h.error)
                /\ IF h.status # ADBC_STATUS_OK
                     THEN \* Close()
                          /\ fd_closes' = 1
                          /\ socket_fd_' = -1
                          /\ authenticated_' = FALSE
                          /\ session_id_' = ""
                          /\ session_id_set' = FALSE
                          /\ server_version_' = ""
                          /\ peer_open' = FALSE
                     ELSE /\ socket_fd_' = 3
                          /\ server_version_' = h.server_version
                          /\ peer_open' = TRUE
                          /\ fd_closes' = 0
                          /\ UNCHANGED << authenticated_, session_id_, session_id_set >>
    /\ UNCHANGED << pc, arrow_ipc_data, received, reader, out,
                    consumer, concurrent >>

\* ------------------------------------------------------ Authenticate
\* An exchange that stores the session without looking at `success`.
AuthExchangeAnyResult(writes, frame, data) ==
    LET w == WriteMessage(writes, data)
        rd == ReadMessage(frame)
        base == [wrote |-> SubSeq(data, 1, w.total_written), reads |-> 0,
                 log |-> NoRead, authenticated |-> FALSE, session_id |-> "",
                 open |-> FALSE]
    IN
    IF w.status # ADBC_STATUS_OK
      THEN base @@ [status |-> w.status, error |-> w.error]
    ELSE IF rd.empty
      THEN [base EXCEPT !.reads = 1, !.log = ReadLog(rd), !.open = StillOpen(w, rd)]
             @@ [status |-> ADBC_STATUS_IO, error |-> <<"Empty authentication response">>]
    ELSE IF DecodeThrows(MsgAuthResponse, rd.msg)
      THEN [base EXCEPT !.reads = 1, !.log = ReadLog(rd), !.open = TRUE]
             @@ [status |-> ADBC_STATUS_INVALID_DATA,
                 error |-> <<"Failed to decode authentication response: ">>]
    ELSE [base EXCEPT !.reads = 1, !.log = ReadLog(rd), !.open = TRUE,
                      !.authenticated = TRUE, !.session_id = rd.msg.session_id]
           @@ [status |-> ADBC_STATUS_OK, error |-> NoError]

\* NativeClient::Authenticate, after its two state checks: write the
\* request, read and decode the response, store the session.
AuthExchange(writes, frame, data) ==
    LET w == WriteMessage(writes, data)
        rd == ReadMessage(frame)
        base == [wrote |-> SubSeq(data, 1, w.total_written), reads |-> 0,
                 log |-> NoRead, authenticated |-> FALSE, session_id |-> "",
                 open |-> FALSE]
    IN
    IF w.status # ADBC_STATUS_OK
      THEN base @@ [status |-> w.status, error |-> w.error]
    ELSE IF rd.empty
      THEN [base EXCEPT !.reads = 1, !.log = ReadLog(rd), !.open = StillOpen(w, rd)]
             @@ [status |-> ADBC_STATUS_IO, error |-> <<"Empty authentication response">>]
    ELSE IF DecodeThrows(MsgAuthResponse, rd.msg)
      THEN [base EXCEPT !.reads = 1, !.log = ReadLog(rd), !.open = TRUE]
             @@ [status |-> ADBC_STATUS_INVALID_DATA,
                 error |-> <<"Failed to decode authentication response: ">>]
    ELSE IF ~rd.msg.success
      THEN [base EXCEPT !.reads = 1, !.log = ReadLog(rd), !.open = TRUE]
             @@ [status |-> ADBC_STATUS_UNAUTHENTICATED,
                 error |-> <<"Authentication failed">>]
    ELSE [base EXCEPT !.reads = 1, !.log = ReadLog(rd), !.open = TRUE,
                      !.authenticated = TRUE, !.session_id = rd.msg.session_id]
           @@ [status |-> ADBC_STATUS_OK, error |-> NoError]

\* State checks that only ask for a connection.
AuthenticateStateCheckConnectedOnly ==
    IF ~IsConnected
      THEN [rejected |-> TRUE, error |-> <<"Not connected">>]
    ELSE [rejected |-> FALSE, error |-> NoError]

\* The two state checks at the head of NativeClient::Authenticate.
AuthenticateStateCheck ==
    IF ~IsConnected
      THEN [rejected |-> TRUE, error |-> <<"Not connected">>]
    ELSE IF authenticated_
      THEN [rejected |-> TRUE, error |-> <<"Already authenticated">>]
    ELSE [rejected |-> FALSE, error |-> NoError]

\* NativeClient::Authenticate
Authenticate ==
    /\ pc = "idle"
    /\ \E token \in Tokens, database \in Databases :
         LET data == EncodeAuthRequest(token, database)
             c == AuthenticateStateCheck
         IN
         IF c.rejected
           THEN /\ result' = Returned("Authenticate", ADBC_STATUS_INVALID_STATE,
                                      c.error)
                /\ frames_read' = 0 /\ last_read' = NoRead /\ wire_out' = <<>>
                /\ UNCHANGED << client, peer_open >>
           ELSE \E writes \in WritesNow(Len(data)), frame \in FramesNow :
                  LET a == AuthExchange(writes, frame, data) IN
                  /\ frames_read' = a.reads /\ last_read' = a.log /\ wire_out' = a.wrote
                  /\ result' = Returned("Authenticate", a.status, a.error)
                  /\ peer_open' = (peer_open /\ a.open)
                  /\ IF a.status = ADBC_STATUS_OK
                       THEN /\ session_id_' = a.session_id
                            /\ session_id_set' = TRUE
                            /\ authenticated_' = a.authenticated
                       ELSE UNCHANGED << session_id_, session_id_set, authenticated_ >>
                  /\ UNCHANGED << socket_fd_, server_version_ >>
    /\ fd_closes' = 0
    /\ UNCHANGED << pc, arrow_ipc_data, received, reader, out,
                    consumer, concurrent >>

\* ------------------------------------------------------ ExecuteQuery
\* The cases of the switch on the message type inside ExecuteQuery's loop.
\* `next` is "loop" (read on), "complete" (leave the loop) or "return";
\* `took` is what the case appended to the accumulator.
DecodeFailed(acc) ==
    [next |-> "return", status |-> ADBC_STATUS_INVALID_DATA,
     error |-> <<"Failed to decode response: ">>, acc |-> acc, took |-> <<>>]

\* case MessageType::QueryResponseSchema
DispatchSchema(msg, acc) ==
    IF DecodeThrows(MsgQueryResponseSchema, msg) THEN DecodeFailed(acc)
    ELSE [next |-> "loop", status |-> ADBC_STATUS_OK, error |-> NoError,
          acc |-> acc \o msg.bytes, took |-> msg.bytes]

\* case MessageType::QueryResponseBatch
DispatchBatch(msg, acc) ==
    IF DecodeThrows(MsgQueryResponseBatch, msg) THEN DecodeFailed(acc)
    ELSE [next |-> "loop", status |-> ADBC_STATUS_OK, error |-> NoError,
          acc |-> acc \o msg.bytes, took |-> msg.bytes]

\* A QueryComplete case that stays in the loop.
DispatchCompleteContinues(msg, acc) ==
    IF DecodeThrows(MsgQueryComplete, msg) THEN DecodeFailed(acc)
    ELSE [next |-> "loop", status |-> ADBC_STATUS_OK, error |-> NoError,
          acc |-> acc, took |-> <<>>]

\* case MessageType::QueryComplete (rows_affected is stored in a local that
\* nothing reads afterwards)
DispatchComplete(msg, acc) ==
    IF DecodeThrows(MsgQueryComplete, msg) THEN DecodeFailed(acc)
    ELSE [next |-> "complete", status |-> ADBC_STATUS_OK, error |-> NoError,
          acc |-> acc, took |-> <<>>]

DispatchErrorGeneric(msg, acc) ==
    IF DecodeThrows(MsgError, msg) THEN DecodeFailed(acc)
    ELSE [next |-> "return", status |-> ADBC_STATUS_UNKNOWN,
          error |-> <<"Query error">>, acc |-> acc, took |-> <<>>]

\* case MessageType::Error
DispatchError(msg, acc) ==
    IF DecodeThrows(MsgError, msg) THEN DecodeFailed(acc)
    ELSE [next |-> "return", status |-> ADBC_STATUS_UNKNOWN,
          error |-> <<"Query error [", msg.code, "]: ", msg.message>>,
          acc |-> acc, took |-> <<>>]

DispatchDefaultSkips(msg, acc) ==
    [next |-> "loop", status |-> ADBC_STATUS_OK, error |-> NoError,
     acc |-> acc, took |-> <<>>]

\* default:
DispatchDefault(msg, acc) ==
    [next |-> "return", status |-> ADBC_STATUS_INVALID_DATA,
     error |-> <<"Unexpected message type: ", ToString(msg.type)>>,
     acc |-> acc, took |-> <<>>]

\* switch (msg_type)
ExecuteQueryDispatch(msg, acc) ==
    CASE msg.type = MsgQueryResponseSchema -> DispatchSchema(msg, acc)
      [] msg.type = MsgQueryResponseBatch -> DispatchBatch(msg, acc)
      [] msg.type = MsgQueryComplete -> DispatchComplete(msg, acc)
      [] msg.type = MsgError -> DispatchError(msg, acc)
      [] OTHER -> DispatchDefault(msg, acc)

\* ReadLE32 of arrow_reader.cc at a 0-based offset (values below 2^31).
ReadLE32(data, off) ==
    data[off + 1] + data[off + 2] * 256 + data[off + 3] * 65536
      + data[off + 4] * 16777216

\* CubeArrowReader's constructor.
NewReader(buffer) ==
    [constructed |-> TRUE, alive |-> TRUE, buffer_ |-> buffer, offset_ |-> 0,
     schema_initialized_ |-> FALSE, finished_ |-> FALSE,
     schema_ |-> EmptySchema, deletes |-> 0, inits |-> 0]

\* offset_ = 8 + msg_size, computed in 32 unsigned bits from the four bytes
\* of msg_size: the eight sizes from 0xFFFFFFF8 on wrap round to 0..7.
\* (Sizes from 2^31 on that do not wrap are outside the model's inputs.)
Add8(size_bytes) ==
    IF size_bytes[1] >= 248 /\ SubSeq(size_bytes, 2, 4) = <<255, 255, 255>>
      THEN size_bytes[1] - 248
      ELSE 8 + ReadLE32(size_bytes, 0)

\* The 0-based indices of buffer_ that the header reads at the cursor touch
\* once the check 'offset_ + 8 > buffer_.size()' has passed.
HeaderReadAt(rdr) ==
    IF rdr.offset_ + 8 > Len(rdr.buffer_)
      THEN {}
      ELSE rdr.offset_ .. (rdr.offset_ + 7)

\* CubeArrowReader's constructor followed by CubeArrowReader::Init.
ReaderInit(buffer) ==
    LET fresh == [NewReader(buffer) EXCEPT !.inits = 1]
    IN
    IF buffer = <<>> THEN [status |-> EINVAL, reader |-> fresh]
    ELSE IF 0 + 8 > Len(buffer) THEN [status |-> EINVAL, reader |-> fresh]
    ELSE IF SubSeq(buffer, 1, 4) # ARROW_IPC_MAGIC
      THEN [status |-> EINVAL, reader |-> fresh]
    ELSE LET end == Add8(SubSeq(buffer, 5, 8))
         IN [status |-> NANOARROW_OK,
             reader |-> [fresh EXCEPT
                           !.schema_ = StructSchema,
                           !.schema_initialized_ = TRUE,
                           !.offset_ = IF end % 8 # 0 THEN end + (8 - (end % 8))
                                       ELSE end,
                           !.finished_ = FALSE]]

\* CubeArrowReader::ExportTo
ExportTo(stream) ==
    [release |-> "CubeArrowStreamRelease", private_data |-> "reader"]

\* A tail of ExecuteQuery that gives up its ownership of the reader before
\* Init is checked.
ExecuteQueryFinishLeaks(acc, stream) ==
    IF acc = <<>>
      THEN [status |-> ADBC_STATUS_INVALID_DATA,
            error |-> <<"No Arrow IPC data received">>,
            reader |-> NoReader, out |-> stream]
    ELSE LET i == ReaderInit(acc) IN
      IF i.status # NANOARROW_OK
        THEN [status |-> i.status, error |-> <<"Failed to initialize Arrow reader">>,
              reader |-> i.reader, out |-> stream]
        ELSE [status |-> ADBC_STATUS_OK, error |-> NoError,
              reader |-> i.reader, out |-> ExportTo(stream)]

\* A tail of ExecuteQuery that answers an empty accumulator with a stream
\* over an empty reader.
ExecuteQueryFinishEmptyStream(acc, stream) ==
    IF acc = <<>>
      THEN [status |-> ADBC_STATUS_OK, error |-> NoError,
            reader |-> NewReader(<<>>), out |-> ExportTo(stream)]
    ELSE LET i == ReaderInit(acc) IN
      IF i.status # NANOARROW_OK
        THEN [status |-> i.status, error |-> <<"Failed to initialize Arrow reader">>,
              reader |-> [i.reader EXCEPT !.alive = FALSE, !.deletes = 1],
              out |-> stream]
        ELSE [status |-> ADBC_STATUS_OK, error |-> NoError,
              reader |-> i.reader, out |-> ExportTo(stream)]

\* ExecuteQuery after its loop: build the reader from the accumulator,
\* initialise it and export it into the caller's stream.
ExecuteQueryFinish(acc, stream) ==
    IF acc = <<>>
      THEN [status |-> ADBC_STATUS_INVALID_DATA,
            error |-> <<"No Arrow IPC data received">>,
            reader |-> NoReader, out |-> stream]
    ELSE LET i == ReaderInit(acc) IN
      IF i.status # NANOARROW_OK
        THEN \* the unique_ptr destroys the reader on return
             [status |-> i.status, error |-> <<"Failed to initialize Arrow reader">>,
              reader |-> [i.reader EXCEPT !.alive = FALSE, !.deletes = 1],
              out |-> stream]
        ELSE [status |-> ADBC_STATUS_OK, error |-> NoError,
              reader |-> i.reader, out |-> ExportTo(stream)]

\* The state checks with the test of authenticated_ left out.
ExecuteQueryStateCheckNoAuth ==
    IF ~IsConnected
      THEN [rejected |-> TRUE, status |-> ADBC_STATUS_INVALID_STATE,
            error |-> <<"Not connected">>]
    ELSE [rejected |-> FALSE, status |-> ADBC_STATUS_OK, error |-> NoError]

\* A state check that lets one successful query through per connection.
ExecuteQueryStateCheckSingleUse ==
    IF ~IsConnected
      THEN [rejected |-> TRUE, status |-> ADBC_STATUS_INVALID_STATE,
            error |-> <<"Not connected">>]
    ELSE IF ~authenticated_
      THEN [rejected |-> TRUE, status |-> ADBC_STATUS_UNAUTHENTICATED,
            error |-> <<"Not authenticated">>]
    ELSE IF result.op = "ExecuteQuery" /\ result.status = ADBC_STATUS_OK
      THEN [rejected |-> TRUE, status |-> ADBC_STATUS_INVALID_STATE,
            error |-> <<"Query already run">>]
    ELSE [rejected |-> FALSE, status |-> ADBC_STATUS_OK, error |-> NoError]

\* The two state checks that open ExecuteQuery.
ExecuteQueryStateCheck ==
    IF ~IsConnected
      THEN [rejected |-> TRUE, status |-> ADBC_STATUS_INVALID_STATE,
            error |-> <<"Not connected">>]
    ELSE IF ~authenticated_
      THEN [rejected |-> TRUE, status |-> ADBC_STATUS_UNAUTHENTICATED,
            error |-> <<"Not authenticated">>]
    ELSE [rejected |-> FALSE, status |-> ADBC_STATUS_OK, error |-> NoError]

\* NativeClient::ExecuteQuery up to its loop: the two state checks and the
\* write of the request.
ExecuteQueryCall ==
    /\ pc = "idle"
    /\ \E sql \in Sqls :
         LET data == EncodeQueryRequest(sql)
             c == ExecuteQueryStateCheck
         IN
         /\ reader' = NoReader
         /\ out' = CallerStream
         /\ arrow_ipc_data' = <<>>
         /\ received' = <<>>
         /\ frames_read' = 0
         /\ last_read' = NoRead
         /\ fd_closes' = 0
         /\ IF c.rejected
              THEN /\ result' = Returned("ExecuteQuery", c.status, c.error)
                   /\ wire_out' = <<>>
                   /\ UNCHANGED << pc, peer_open >>
              ELSE \E writes \in WritesNow(Len(data)) :
                     LET w == WriteMessage(writes, data) IN
                     /\ wire_out' = SubSeq(data, 1, w.total_written)
                     /\ IF w.status # ADBC_STATUS_OK
                          THEN /\ result' = Returned("ExecuteQuery", w.status, w.error)
                               /\ peer_open' = FALSE
                               /\ pc' = "idle"
                          ELSE /\ pc' = "draining"
                               /\ UNCHANGED << result, peer_open >>
    /\ UNCHANGED << client,
                    consumer, concurrent >>

\* One turn of the loop: ReadMessage, the check for an empty result, then
\* the dispatch on the type byte.
ExecuteQueryTurn(rd, acc) ==
    IF rd.empty
      THEN [next |-> "return", status |-> ADBC_STATUS_IO,
            error |-> <<"Empty query response">>, acc |-> acc, took |-> <<>>]
      ELSE ExecuteQueryDispatch(rd.msg, acc)

\* A return that exports whatever the loop had accumulated.
ExecuteQueryReturnPartial(d, stream) ==
    IF d.next = "complete" \/ d.acc # <<>>
      THEN [ExecuteQueryFinish(d.acc, stream) EXCEPT
              !.status = IF d.next = "complete" THEN @ ELSE d.status,
              !.error = IF d.next = "complete" THEN @ ELSE d.error]
      ELSE [status |-> d.status, error |-> d.error, reader |-> NoReader,
            out |-> stream]

\* What ExecuteQuery leaves behind when it returns after turn `d`: an
\* error return from inside the loop builds no reader and leaves the
\* caller's stream alone.
ExecuteQueryReturn(d, stream) ==
    IF d.next = "complete"
      THEN ExecuteQueryFinish(d.acc, stream)
      ELSE [status |-> d.status, error |-> d.error, reader |-> NoReader,
            out |-> stream]

\* One turn of ExecuteQuery's loop; when the loop ends the rest of
\* ExecuteQuery runs in the same step.
ExecuteQueryDrain ==
    /\ pc = "draining"
    /\ \E frame \in FramesNow :
         LET rd == ReadMessage(frame)
             d == ExecuteQueryTurn(rd, arrow_ipc_data)
             r == ExecuteQueryReturn(d, out)
         IN
         /\ frames_read' = frames_read + 1
         /\ last_read' = ReadLog(rd)
         /\ peer_open' = (rd.empty => rd.hdr_read = 4 /\ ~LengthAccepted(rd.length))
         /\ IF d.next = "loop"
              THEN /\ Len(received) < MaxMsgs
                   /\ arrow_ipc_data' = d.acc
                   /\ received' = Append(received,
                                         [type |-> rd.msg.type, bytes |-> d.took])
                   /\ UNCHANGED << pc, result, reader, out >>
              ELSE /\ result' = Returned("ExecuteQuery", r.status, r.error)
                   /\ reader' = r.reader
                   /\ out' = r.out
                   /\ pc' = "idle"
                   /\ UNCHANGED << arrow_ipc_data, received >>
    /\ UNCHANGED << client, wire_out, fd_closes,
                    consumer, concurrent >>

Next == Close \/ Connect \/ Authenticate \/ ExecuteQueryCall \/ ExecuteQueryDrain

Spec == Init /\ [][Next]_vars

\* ------------------------------------------------ reading the stream
\* Most RecordBatch messages in the IPC streams the reader is run on.
MaxBatches == 2

\* Most end-of-stream reports a consumer asks one stream for.
MaxEosReports == 2

ENOMSG == "ENOMSG"
ENOMEM == "ENOMEM"

\* The int64 of the i-th RecordBatch's body, as its 8 little-endian bytes.
BatchValue(i) == << 40 + i, 0, 0, 0, 0, 0, 0, 0 >>

\* The i-th RecordBatch message of a stream: 8 bytes of metadata and a body
\* of one int64.
IpcBatch(i) ==
    ARROW_IPC_MAGIC \o <<8, 0, 0, 0>> \o <<2, 2, 2, 2, 2, 2, 2, 2>> \o BatchValue(i)

RECURSIVE IpcBatches(_, _)
IpcBatches(from, to) ==
    IF from > to THEN <<>> ELSE IpcBatch(from) \o IpcBatches(from + 1, to)

\* A schema message, n RecordBatch messages and the EOS marker.
IpcStream(n) == IpcSchemaMessage \o IpcBatches(1, n) \o IpcEos

\* A stream in which a second Schema message follows the first.
IpcRepeatedSchema(n) == IpcSchemaMessage \o IpcStream(n)

\* A field of a Schema message: its name, its logical type written as the
\* Arrow C format string (temporal unit and timezone included), and whether
\* it is nullable.
Field(name, format, nullable) ==
    [name |-> name, format |-> format, nullable |-> nullable]

\* The fields a server may declare: schemas of supported types and schemas
\* with a list or a decimal column.
SupportedFieldLists ==
    { << Field("test", "l", TRUE) >>,
      << Field("id", "l", FALSE) >>,
      << Field("test", "l", TRUE), Field("name", "u", TRUE) >>,
      << Field("ts", "tsu:UTC", TRUE) >> }
UnsupportedFieldLists ==
    { << Field("tags", "+l", TRUE) >>,
      << Field("test", "l", TRUE), Field("amount", "d:10,2", TRUE) >> }

\* The metadata bytes of a field: name, type (numbered as in the Arrow
\* Type table: Int 2, Utf8 5, Decimal 7, Timestamp 10, List 12), nullable.
NameCode(name) ==
    CASE name = "test" -> 1 [] name = "id" -> 2 [] name = "name" -> 3
      [] name = "ts" -> 4 [] name = "tags" -> 5 [] name = "amount" -> 6
TypeCode(format) ==
    CASE format = "l" -> 2 [] format = "u" -> 5 [] format = "d:10,2" -> 7
      [] format = "tsu:UTC" -> 10 [] format = "+l" -> 12
FieldBytes(f) ==
    << NameCode(f.name), TypeCode(f.format), IF f.nullable THEN 1 ELSE 0 >>

\* A Schema message declaring one or two fields: message type 1, the field
\* count and the fields, in 8 bytes of metadata.
SchemaMessageOf(fields) ==
    ARROW_IPC_MAGIC \o <<8, 0, 0, 0>> \o <<1, Len(fields)>>
      \o FieldBytes(fields[1])
      \o (IF Len(fields) = 2 THEN FieldBytes(fields[2]) ELSE <<0, 0, 0>>)

\* A stream with the declared fields, one RecordBatch and the EOS marker.
IpcTypedStream(fields) == SchemaMessageOf(fields) \o IpcBatch(1) \o IpcEos

\* What a RecordBatch message of one int64 column declares: its row count
\* and the null_count of the column's FieldNode.
DeclaredBatches ==
    { [rows |-> 1, nulls |-> 0], [rows |-> 2, nulls |-> 0],
      [rows |-> 2, nulls |-> 1], [rows |-> 0, nulls |-> 0] }

RECURSIVE BatchValues(_)
BatchValues(rows) ==
    IF rows = 0 THEN <<>> ELSE BatchValues(rows - 1) \o BatchValue(rows)

\* A RecordBatch message: message type 2, the row count and the null count
\* in 8 bytes of metadata; the body holds a validity bitmap padded to 8
\* bytes when there are nulls, then one int64 per row.
BatchMessageOf(b) ==
    ARROW_IPC_MAGIC \o <<8, 0, 0, 0>> \o <<2, b.rows, b.nulls, 0, 0, 0, 0, 0>>
      \o (IF b.nulls > 0 THEN <<1, 0, 0, 0, 0, 0, 0, 0>> ELSE <<>>)
      \o BatchValues(b.rows)

\* A stream of the schema message, one such RecordBatch and the EOS marker.
IpcSizedStream(b) == IpcSchemaMessage \o BatchMessageOf(b) \o IpcEos

\* A schema message header whose size word is 0xFFFFFFF8, alone and
\* followed by four more bytes.
IpcWrappingSize == ARROW_IPC_MAGIC \o <<248, 255, 255, 255>>

\* A message whose continuation marker is not 0xFFFFFFFF.
IpcBadMarker ==
    <<255, 255, 255, 254>> \o <<8, 0, 0, 0>> \o <<2, 2, 2, 2, 2, 2, 2, 2>>
                           \o BatchValue(1)

\* Messages that declare 64 bytes of metadata and carry 8.
IpcOversizedSchema ==
    ARROW_IPC_MAGIC \o <<64, 0, 0, 0>> \o <<1, 1, 1, 1, 1, 1, 1, 1>>
IpcOversizedBatch ==
    ARROW_IPC_MAGIC \o <<64, 0, 0, 0>> \o <<2, 2, 2, 2, 2, 2, 2, 2>>

\* The accumulated buffers ExecuteQuery hands to the reader.
IpcBuffers ==
    { IpcStream(n) : n \in 0..MaxBatches }
      \cup { IpcSchemaMessage \o IpcBatches(1, n) : n \in 0..MaxBatches }
      \cup { SchemaOnlyStream \o IpcStream(n) : n \in 1..MaxBatches }
      \cup { IpcRepeatedSchema(n) : n \in 0..MaxBatches }
      \cup { IpcTypedStream(fields) :
               fields \in SupportedFieldLists \cup UnsupportedFieldLists }
      \cup { IpcSizedStream(b) : b \in DeclaredBatches }
      \cup { IpcWrappingSize, IpcWrappingSize \o <<7, 7, 7, 7>> }
      \cup { IpcSchemaMessage \o IpcBatches(1, n) \o IpcBadMarker \o IpcEos :
               n \in 0..(MaxBatches - 1) }
      \cup { IpcSchemaMessage \o IpcBatches(1, n) \o IpcOversizedBatch :
               n \in 0..(MaxBatches - 1) }
      \cup { IpcOversizedSchema, IpcOversizedSchema \o IpcBatch(1) \o IpcEos,
             IpcBadMarker \o IpcEos, <<1, 2, 3>> }

\* The struct array of one row that GetNext builds around `value`.
RowArray(value) ==
    [release |-> "ArrowArrayRelease", length |-> 1, null_count |-> 0,
     n_children |-> 1, children_null_count |-> <<0>>, value |-> value]

\* An ArrowArray after ArrowArrayRelease.
ReleasedArray == [CallerArray EXCEPT !.release = "null"]

\* The int64 GetNext takes from 16 bytes before the end of the buffer, 1 when
\* the unsigned buffer_.size() - 16 wraps around.
\* A value read that does not test data_offset against the buffer's size:
\* for fewer than 16 bytes data_offset is size - 16 in unsigned arithmetic,
\* an index far outside the buffer (shown here as the negative difference).
ValueReadAtUnchecked(buffer) ==
    IF Len(buffer) >= 8
      THEN (Len(buffer) - 16) .. (Len(buffer) - 9)
      ELSE {}

\* The 0-based indices of buffer_ that GetNext reads the int64 value from:
\* size_t data_offset = buffer_.size() - 16 wraps round for fewer than 16
\* bytes and then fails the test 'data_offset < buffer_.size()'.
ValueReadAt(buffer) ==
    IF Len(buffer) >= 8 /\ Len(buffer) >= 16
      THEN (Len(buffer) - 16) .. (Len(buffer) - 9)
      ELSE {}

\* The indices of buffer_ read by Init and by GetNext on reader rdr.
InitReads(rdr) ==
    IF rdr.buffer_ = <<>> THEN {} ELSE HeaderReadAt(rdr)
GetNextReads(rdr) ==
    IF ~rdr.schema_initialized_ \/ rdr.finished_ \/ HeaderReadAt(rdr) = {}
      THEN {}
    ELSE IF SubSeq(rdr.buffer_, rdr.offset_ + 1, rdr.offset_ + 4) # ARROW_IPC_MAGIC
      THEN HeaderReadAt(rdr)
    ELSE HeaderReadAt(rdr) \cup ValueReadAt(rdr.buffer_)

ExtractValue(buffer) ==
    IF Len(buffer) >= 8 /\ Len(buffer) >= 16
      THEN SubSeq(buffer, Len(buffer) - 15, Len(buffer) - 8)
      ELSE <<1, 0, 0, 0, 0, 0, 0, 0>>

\* A GetNext whose end-of-stream answer rewinds the reader.
GetNextRestarts(rdr, arr, alloc_ok) ==
    IF ~rdr.schema_initialized_
      THEN [status |-> EINVAL, reader |-> rdr, out |-> arr]
    ELSE IF rdr.finished_
      THEN [status |-> ENOMSG, reader |-> [rdr EXCEPT !.finished_ = FALSE],
            out |-> arr]
    ELSE IF rdr.offset_ + 8 > Len(rdr.buffer_)
      THEN [status |-> ENOMSG, reader |-> [rdr EXCEPT !.finished_ = TRUE],
            out |-> arr]
    ELSE IF SubSeq(rdr.buffer_, rdr.offset_ + 1, rdr.offset_ + 4) # ARROW_IPC_MAGIC
      THEN [status |-> ENOMSG, reader |-> [rdr EXCEPT !.finished_ = TRUE],
            out |-> arr]
    ELSE IF ~alloc_ok
      THEN [status |-> ENOMEM, reader |-> rdr, out |-> ReleasedArray]
    ELSE [status |-> NANOARROW_OK, reader |-> [rdr EXCEPT !.finished_ = TRUE],
          out |-> RowArray(ExtractValue(rdr.buffer_))]

\* A GetNext that does not ask whether the schema was built.
GetNextUnchecked(rdr, arr, alloc_ok) ==
    IF rdr.finished_
      THEN [status |-> ENOMSG, reader |-> rdr, out |-> arr]
    ELSE IF rdr.offset_ + 8 > Len(rdr.buffer_)
      THEN [status |-> ENOMSG, reader |-> [rdr EXCEPT !.finished_ = TRUE],
            out |-> arr]
    ELSE IF SubSeq(rdr.buffer_, rdr.offset_ + 1, rdr.offset_ + 4) # ARROW_IPC_MAGIC
      THEN [status |-> ENOMSG, reader |-> [rdr EXCEPT !.finished_ = TRUE],
            out |-> arr]
    ELSE IF ~alloc_ok
      THEN [status |-> ENOMEM, reader |-> rdr, out |-> ReleasedArray]
    ELSE [status |-> NANOARROW_OK, reader |-> [rdr EXCEPT !.finished_ = TRUE],
          out |-> RowArray(ExtractValue(rdr.buffer_))]

\* CubeArrowReader::GetNext.  `alloc_ok` says whether nanoarrow's
\* allocations succeed.
GetNext(rdr, arr, alloc_ok) ==
    IF ~rdr.schema_initialized_
      THEN [status |-> EINVAL, reader |-> rdr, out |-> arr]
    ELSE IF rdr.finished_
      THEN [status |-> ENOMSG, reader |-> rdr, out |-> arr]
    ELSE IF rdr.offset_ + 8 > Len(rdr.buffer_)
      THEN [status |-> ENOMSG, reader |-> [rdr EXCEPT !.finished_ = TRUE],
            out |-> arr]
    ELSE LET continuation == SubSeq(rdr.buffer_, rdr.offset_ + 1, rdr.offset_ + 4)
             msg_size == SubSeq(rdr.buffer_, rdr.offset_ + 5, rdr.offset_ + 8)
         IN
      IF continuation # ARROW_IPC_MAGIC
        THEN IF continuation = ARROW_IPC_MAGIC /\ msg_size = <<0, 0, 0, 0>>
               THEN [status |-> ENOMSG, reader |-> [rdr EXCEPT !.finished_ = TRUE],
                     out |-> arr]
               ELSE [status |-> ENOMSG, reader |-> [rdr EXCEPT !.finished_ = TRUE],
                     out |-> arr]
      ELSE IF ~alloc_ok
        THEN [status |-> ENOMEM, reader |-> rdr, out |-> ReleasedArray]
      ELSE [status |-> NANOARROW_OK, reader |-> [rdr EXCEPT !.finished_ = TRUE],
            out |-> RowArray(ExtractValue(rdr.buffer_))]

\* ArrowSchemaDeepCopy: the copy owns its own buffers.
ArrowSchemaDeepCopy(schema) == [schema EXCEPT !.owner = "caller"]

\* A GetSchema that hands out the stored schema itself.
GetSchemaShallow(rdr, sch, alloc_ok) ==
    IF ~rdr.schema_initialized_
      THEN [status |-> EINVAL, reader |-> rdr, out |-> sch]
    ELSE [status |-> NANOARROW_OK, reader |-> rdr, out |-> rdr.schema_]

\* CubeArrowReader::GetSchema
GetSchema(rdr, sch, alloc_ok) ==
    IF ~rdr.schema_initialized_
      THEN [status |-> EINVAL, reader |-> rdr, out |-> sch]
    ELSE IF ~alloc_ok
      THEN [status |-> ENOMEM, reader |-> rdr,
            out |-> [sch EXCEPT !.release = "null"]]
    ELSE [status |-> NANOARROW_OK, reader |-> rdr,
          out |-> ArrowSchemaDeepCopy(rdr.schema_)]

\* CubeArrowStreamGetSchema
CubeArrowStreamGetSchema(rdr, sch, alloc_ok) == GetSchema(rdr, sch, alloc_ok)

\* An adapter that hands GetNext's status on as it is.
CubeArrowStreamGetNextRaw(rdr, arr, alloc_ok) == GetNext(rdr, arr, alloc_ok)

\* CubeArrowStreamGetNext
CubeArrowStreamGetNext(rdr, arr, alloc_ok) ==
    LET g == GetNext(rdr, arr, alloc_ok) IN
    IF g.status = ENOMSG
      THEN [status |-> NANOARROW_OK, reader |-> g.reader,
            out |-> [g.out EXCEPT !.release = "null"]]
      ELSE g

\* A release callback that deletes the reader and keeps private_data.
CubeArrowStreamReleaseKeepsPointer(stream, rdr) ==
    IF stream.private_data # "null"
      THEN [out |-> [stream EXCEPT !.release = "null"],
            reader |-> [rdr EXCEPT !.alive = FALSE, !.deletes = @ + 1]]
      ELSE [out |-> [stream EXCEPT !.release = "null"], reader |-> rdr]

\* CubeArrowStreamRelease
CubeArrowStreamRelease(stream, rdr) ==
    IF stream.private_data # "null"
      THEN [out |-> [stream EXCEPT !.release = "null", !.private_data = "null"],
            reader |-> [rdr EXCEPT !.alive = FALSE, !.deletes = @ + 1]]
      ELSE [out |-> [stream EXCEPT !.release = "null"], reader |-> rdr]

\* Most calls of the release callback on one stream structure.
MaxReleaseCalls == 2

\* The stream ExecuteQuery exported is still the consumer's to call.
StreamUsable == pc = "idle" /\ out.release = "CubeArrowStreamRelease" /\ reader.alive

\* The consumer calls stream->get_schema(stream, &schema).
StreamGetSchema ==
    /\ StreamUsable
    /\ \E alloc_ok \in BOOLEAN :
         LET g == CubeArrowStreamGetSchema(reader, CallerSchema, alloc_ok) IN
         /\ reader' = g.reader
         /\ schema_out' = g.out
         /\ result' = Returned("get_schema", g.status, NoError)
    /\ UNCHANGED << client, peer_open, pc, arrow_ipc_data, received, frames_read,
                    last_read, wire_out, out, fd_closes, array_out, yielded,
                    eos_reports, release_calls, concurrent >>

\* The consumer calls stream->get_next(stream, &array).
StreamGetNext ==
    /\ StreamUsable
    /\ Len(yielded) <= MaxBatches
    /\ eos_reports < MaxEosReports
    /\ \E alloc_ok \in BOOLEAN :
         LET g == CubeArrowStreamGetNext(reader, CallerArray, alloc_ok) IN
         /\ reader' = g.reader
         /\ array_out' = g.out
         /\ result' = Returned("get_next", g.status, NoError)
         /\ yielded' = IF g.status = NANOARROW_OK /\ g.out.release # "null"
                         THEN Append(yielded, g.out.value) ELSE yielded
         /\ eos_reports' = IF g.status = NANOARROW_OK /\ g.out.release = "null"
                              THEN eos_reports + 1 ELSE eos_reports
    /\ UNCHANGED << client, peer_open, pc, arrow_ipc_data, received, frames_read,
                    last_read, wire_out, out, fd_closes, schema_out,
                    release_calls, concurrent >>

\* An authenticated client whose ExecuteQuery has accumulated `buffer` from
\* one QueryResponseBatch, read QueryComplete and run the reader's
\* construction, Init and ExportTo.
ReaderInitState ==
    \E buffer \in IpcBuffers :
      LET r == ExecuteQueryFinish(buffer, CallerStream)
          complete == CHOOSE m \in CompleteResponses : TRUE
      IN
      /\ socket_fd_ = 3
      /\ authenticated_ = TRUE
      /\ session_id_ = "sess-1"
      /\ session_id_set = TRUE
      /\ server_version_ = "cube-1"
      /\ peer_open = TRUE
      /\ pc = "idle"
      /\ arrow_ipc_data = buffer
      /\ received = << [type |-> MsgQueryResponseBatch, bytes |-> buffer] >>
      /\ frames_read = 2
      /\ last_read = ReadLog(ReadMessage(FrameOf(complete)))
      /\ wire_out = EncodeQueryRequest(<<83, 69, 76>>)
      /\ reader = r.reader
      /\ out = r.out
      /\ result = Returned("ExecuteQuery", r.status, r.error)
      /\ fd_closes = 0
      /\ array_out = CallerArray
      /\ schema_out = CallerSchema
      /\ yielded = <<>>
      /\ eos_reports = 0
      /\ release_calls = 0
      /\ NoConcurrency

\* The release callback runs on the stream structure ExportTo filled.
StreamRelease ==
    /\ pc = "idle"
    /\ out.private_data # "caller"
    /\ release_calls < MaxReleaseCalls
    /\ LET r == CubeArrowStreamRelease(out, reader) IN
         /\ out' = r.out
         /\ reader' = r.reader
    /\ release_calls' = release_calls + 1
    /\ result' = Returned("release", NANOARROW_OK, NoError)
    /\ UNCHANGED << client, peer_open, arrow_ipc_data, received, frames_read,
                    last_read, wire_out, fd_closes, pc, array_out, schema_out,
                    yielded, eos_reports, concurrent >>

ReaderNext == StreamGetSchema \/ StreamGetNext \/ StreamRelease

ReaderSpec == ReaderInitState /\ [][ReaderNext]_vars

\* ------------------------------------------- the reader's own methods
\* The variables of the client and of the exported stream, which the
\* reader's methods leave alone.
aroundReader == << client, peer_open, pc, arrow_ipc_data, received, frames_read,
                   last_read, wire_out, out, fd_closes, eos_reports,
                   release_calls, concurrent >>

\* reader->Init(), called once on a reader, as ExecuteQuery does.
ApiInit ==
    /\ reader.alive /\ reader.inits = 0
    /\ LET i == ReaderInit(reader.buffer_) IN
         /\ reader' = i.reader
         /\ result' = Returned("Init", i.status, NoError)
    /\ UNCHANGED << aroundReader, array_out, schema_out, yielded >>

\* reader->GetSchema(&schema)
ApiGetSchema ==
    /\ reader.alive
    /\ \E alloc_ok \in BOOLEAN :
         LET g == GetSchema(reader, CallerSchema, alloc_ok) IN
         /\ reader' = g.reader
         /\ schema_out' = g.out
         /\ result' = Returned("GetSchema", g.status, NoError)
    /\ UNCHANGED << aroundReader, array_out, yielded >>

\* reader->GetNext(&array)
ApiGetNext ==
    /\ reader.alive
    /\ Len(yielded) <= MaxBatches
    /\ \E alloc_ok \in BOOLEAN :
         LET g == GetNext(reader, CallerArray, alloc_ok) IN
         /\ reader' = g.reader
         /\ array_out' = g.out
         /\ result' = Returned("GetNext", g.status, NoError)
         /\ yielded' = IF g.status = NANOARROW_OK
                         THEN Append(yielded, g.out.value) ELSE yielded
    /\ UNCHANGED << aroundReader, schema_out >>

\* A reader constructed over an accumulated buffer; no method has run.
ApiInitState ==
    \E buffer \in IpcBuffers :
      /\ socket_fd_ = 3
      /\ authenticated_ = TRUE
      /\ session_id_ = "sess-1"
      /\ session_id_set = TRUE
      /\ server_version_ = "cube-1"
      /\ peer_open = TRUE
      /\ pc = "idle"
      /\ arrow_ipc_data = buffer
      /\ received = << [type |-> MsgQueryResponseBatch, bytes |-> buffer] >>
      /\ frames_read = 2
      /\ last_read = NoRead
      /\ wire_out = EncodeQueryRequest(<<83, 69, 76>>)
      /\ reader = NewReader(buffer)
      /\ out = CallerStream
      /\ result = Returned("none", ADBC_STATUS_OK, NoError)
      /\ fd_closes = 0
      /\ array_out = CallerArray
      /\ schema_out = CallerSchema
      /\ yielded = <<>>
      /\ eos_reports = 0
      /\ release_calls = 0
      /\ NoConcurrency

ApiNext == ApiInit \/ ApiGetSchema \/ ApiGetNext

ReaderApiSpec == ApiInitState /\ [][ApiNext]_vars

\* --------------------------------------------- two readers in one process
\* Every variable but `result` and those of `concurrent`.
single == << client, peer_open, pc, arrow_ipc_data, received, frames_read,
             last_read, wire_out, reader, out, fd_closes, consumer >>

\* The buffers the readers of the process are constructed over.
InstanceBuffers == { <<>>, IpcStream(0), IpcStream(1) }

\* fwrite of `bytes` at position 0 of a file holding `old`.
Overwrite(old, bytes) ==
    bytes \o (IF Len(old) > Len(bytes)
                THEN SubSeq(old, Len(bytes) + 1, Len(old)) ELSE <<>>)

\* Init of reader i up to fopen("/tmp/cube_arrow_ipc_data.bin", "wb"): an
\* empty buffer returns EINVAL before the file is touched; otherwise fopen
\* truncates the file, or fails and the dump is skipped.
InstanceInitOpen(i) ==
    /\ instances[i].at = "new"
    /\ IF instances[i].reader.buffer_ = <<>>
         THEN /\ instances' = [instances EXCEPT
                                 ![i].at = "done",
                                 ![i].reader = ReaderInit(<<>>).reader]
              /\ result' = Returned("Init", EINVAL, NoError)
              /\ UNCHANGED debug_file
         ELSE \E opened \in BOOLEAN :
                /\ instances' = [instances EXCEPT
                                   ![i].at = IF opened THEN "opened" ELSE "parse"]
                /\ debug_file' = IF opened
                                   THEN [exists |-> TRUE, content |-> <<>>,
                                         writers |-> debug_file.writers \cup {i}]
                                   ELSE debug_file
                /\ UNCHANGED result
    /\ UNCHANGED << single, threads, channel, connection >>

\* fwrite(buffer_.data(), 1, buffer_.size(), debug_file); fclose(debug_file)
InstanceInitWrite(i) ==
    /\ instances[i].at = "opened"
    /\ debug_file' = [debug_file EXCEPT
                        !.content = Overwrite(@, instances[i].reader.buffer_),
                        !.writers = @ \cup {i}]
    /\ instances' = [instances EXCEPT ![i].at = "parse"]
    /\ UNCHANGED << single, result, threads, channel, connection >>

\* The rest of Init: the header of the schema message and the schema.
InstanceInitParse(i) ==
    /\ instances[i].at = "parse"
    /\ LET r == ReaderInit(instances[i].reader.buffer_) IN
         /\ instances' = [instances EXCEPT ![i].at = "done", ![i].reader = r.reader]
         /\ result' = Returned("Init", r.status, NoError)
    /\ UNCHANGED << single, debug_file, threads, channel, connection >>

\* reader i ->GetNext(&array)
InstanceGetNext(i) ==
    /\ instances[i].at = "done"
    /\ \E alloc_ok \in BOOLEAN :
         LET g == GetNext(instances[i].reader, CallerArray, alloc_ok) IN
         /\ instances' = [instances EXCEPT ![i].reader = g.reader]
         /\ result' = Returned("GetNext", g.status, NoError)
    /\ UNCHANGED << single, debug_file, threads, channel, connection >>

\* Two readers constructed in one process, each over its own buffer.
TwoReadersInit ==
    /\ socket_fd_ = -1
    /\ authenticated_ = FALSE
    /\ session_id_ = ""
    /\ session_id_set = FALSE
    /\ server_version_ = ""
    /\ peer_open = FALSE
    /\ pc = "idle"
    /\ arrow_ipc_data = <<>>
    /\ received = <<>>
    /\ frames_read = 0
    /\ last_read = NoRead
    /\ wire_out = <<>>
    /\ reader = NoReader
    /\ out = CallerStream
    /\ result = Returned("none", ADBC_STATUS_OK, NoError)
    /\ fd_closes = 0
    /\ array_out = CallerArray
    /\ schema_out = CallerSchema
    /\ yielded = <<>>
    /\ eos_reports = 0
    /\ release_calls = 0
    /\ \E bufs \in [Instances -> InstanceBuffers] :
         instances = [i \in Instances |->
                        [at |-> "new", reader |-> NewReader(bufs[i])]]
    /\ debug_file = NoFile
    /\ threads = [t \in Threads |-> "none"]
    /\ channel = <<>>
    /\ connection = NoConnection

TwoReadersNext ==
    \E i \in Instances :
      \/ InstanceInitOpen(i)
      \/ InstanceInitWrite(i)
      \/ InstanceInitParse(i)
      \/ InstanceGetNext(i)

TwoReadersSpec == TwoReadersInit /\ [][TwoReadersNext]_vars

\* ------------------------------------------ two threads on one client
\* The frames the server sends in answer to query q: batches and
\* QueryComplete, or one Error message.
RECURSIVE BatchFrames(_, _)
BatchFrames(q, n) ==
    IF n = 0 THEN <<>>
    ELSE Append(BatchFrames(q, n - 1), [query |-> q, type |-> MsgQueryResponseBatch])
ResponsesTo(q) ==
    { Append(BatchFrames(q, n), [query |-> q, type |-> MsgQueryComplete]) :
        n \in 1..MaxBatches }
      \cup { << [query |-> q, type |-> MsgError] >> }

\* A thread that has not called ExecuteQuery yet.
IdleThread ==
    [at |-> "idle", frames |-> <<>>, arrow_ipc_data |-> <<>>,
     status |-> ADBC_STATUS_OK]

\* An ExecuteQuery entry that waits until no other call is in flight.
ThreadExecuteQuerySendLocked(t) ==
    /\ threads[t].at = "idle"
    /\ \A u \in Threads \ {t} : threads[u].at # "reading"
    /\ IF ~(IsConnected /\ authenticated_)
         THEN /\ threads' = [threads EXCEPT ![t].at = "returned",
                               ![t].status = ADBC_STATUS_INVALID_STATE]
              /\ UNCHANGED channel
         ELSE /\ \E answer \in ResponsesTo(t) : channel' = channel \o answer
              /\ threads' = [threads EXCEPT ![t].at = "reading"]
    /\ UNCHANGED << single, result, instances, debug_file, connection >>

\* Thread t enters ExecuteQuery: the state check, then WriteMessage of its
\* request on the client's socket; the server queues its answer to query t
\* behind what it already sent.  Nothing is locked.
ThreadExecuteQuerySend(t) ==
    /\ threads[t].at = "idle"
    /\ IF ~(IsConnected /\ authenticated_)
         THEN /\ threads' = [threads EXCEPT ![t].at = "returned",
                               ![t].status = ADBC_STATUS_INVALID_STATE]
              /\ UNCHANGED channel
         ELSE /\ \E answer \in ResponsesTo(t) : channel' = channel \o answer
              /\ threads' = [threads EXCEPT ![t].at = "reading"]
    /\ UNCHANGED << single, result, instances, debug_file, connection >>

\* One turn of thread t's loop: ReadMessage takes the next frame on the
\* socket, whichever query it answers, and the switch dispatches on its type.
ThreadReadMessage(t) ==
    /\ threads[t].at = "reading"
    /\ channel # <<>>
    /\ LET frame == Head(channel) IN
         /\ channel' = Tail(channel)
         /\ threads' =
              [threads EXCEPT
                 ![t].frames = Append(@, frame),
                 ![t].arrow_ipc_data =
                     IF frame.type = MsgQueryResponseBatch
                       THEN Append(@, frame.query) ELSE @,
                 ![t].at = IF frame.type \in {MsgQueryComplete, MsgError}
                             THEN "returned" ELSE "reading",
                 ![t].status = IF frame.type = MsgError
                                 THEN ADBC_STATUS_UNKNOWN ELSE ADBC_STATUS_OK]
    /\ UNCHANGED << single, result, instances, debug_file, connection >>

\* A connected, authenticated client shared by two threads.
TwoThreadsInit ==
    /\ socket_fd_ = 3
    /\ authenticated_ = TRUE
    /\ session_id_ = "sess-1"
    /\ session_id_set = TRUE
    /\ server_version_ = "cube-1"
    /\ peer_open = TRUE
    /\ pc = "idle"
    /\ arrow_ipc_data = <<>>
    /\ received = <<>>
    /\ frames_read = 0
    /\ last_read = NoRead
    /\ wire_out = <<>>
    /\ reader = NoReader
    /\ out = CallerStream
    /\ result = Returned("none", ADBC_STATUS_OK, NoError)
    /\ fd_closes = 0
    /\ array_out = CallerArray
    /\ schema_out = CallerSchema
    /\ yielded = <<>>
    /\ eos_reports = 0
    /\ release_calls = 0
    /\ instances = [i \in Instances |-> "none"]
    /\ debug_file = NoFile
    /\ threads = [t \in Threads |-> IdleThread]
    /\ channel = <<>>
    /\ connection = NoConnection

TwoThreadsNext ==
    \E t \in Threads :
      \/ ThreadExecuteQuerySend(t)
      \/ ThreadReadMessage(t)

TwoThreadsSpec == TwoThreadsInit /\ [][TwoThreadsNext]_vars

\* ------------------------------------- queries on one ready connection
\* A client after a successful Connect and Authenticate.
QueryInitState ==
    /\ socket_fd_ = 3
    /\ authenticated_ = TRUE
    /\ session_id_ = "sess-1"
    /\ session_id_set = TRUE
    /\ server_version_ = "cube-1"
    /\ peer_open = TRUE
    /\ pc = "idle"
    /\ arrow_ipc_data = <<>>
    /\ received = <<>>
    /\ frames_read = 0
    /\ last_read = NoRead
    /\ wire_out = <<>>
    /\ reader = NoReader
    /\ out = CallerStream
    /\ result = Returned("Authenticate", ADBC_STATUS_OK, NoError)
    /\ fd_closes = 0
    /\ array_out = CallerArray
    /\ schema_out = CallerSchema
    /\ yielded = <<>>
    /\ eos_reports = 0
    /\ release_calls = 0
    /\ NoConcurrency

QueryNext == ExecuteQueryCall \/ ExecuteQueryDrain

\* The turn of the loop in which the server's QueryComplete or Error, or the
\* end of the connection, arrives.
ExecuteQueryLastTurn == ExecuteQueryDrain /\ pc' = "idle"

\* The server does not send Schema and Batch messages for ever.
QuerySpec ==
    QueryInitState /\ [][QueryNext]_vars /\ SF_vars(ExecuteQueryLastTurn)

\* ------------------------------------------------------ CubeConnection
\* Most libpq connections one CubeConnection opens.
MaxConns == 5

\* The host and port a database hands to the connection.
ConnConfigs ==
    { [host |-> "", port |-> "4444"], [host |-> "localhost", port |-> "" ],
      [host |-> "localhost", port |-> "4444"] }

\* What PQconnectdb gives: no connection object, one whose status is not
\* CONNECTION_OK, or a working one.
PQOutcomes == { "null", "bad", "ok" }

\* What the call through a null release pointer does: the process dies, or
\* the build carries on behind the call.
NullCallOutcomes == { "crash", "continues" }

\* A CubeConnectionImpl after its constructor; conn_ is 0 for nullptr and
\* otherwise the position in `pq` of the connection it points to.
NewImpl(cfg) ==
    [present |-> TRUE, host_ |-> cfg.host, port_ |-> cfg.port, conn_ |-> 0,
     connected_ |-> FALSE]

\* A Connect that drops a connection of bad status without PQfinish.
ImplConnectLeaks(impl, pq, outcome) ==
    IF impl.host_ = "" \/ impl.port_ = ""
      THEN [impl |-> impl, pq |-> pq, status |-> "InvalidArgument"]
    ELSE IF outcome = "null"
      THEN [impl |-> [impl EXCEPT !.conn_ = 0], pq |-> pq, status |-> "Internal"]
    ELSE IF outcome = "bad"
      THEN [impl |-> [impl EXCEPT !.conn_ = 0], pq |-> Append(pq, 0),
            status |-> "InvalidState"]
    ELSE [impl |-> [impl EXCEPT !.conn_ = Len(pq) + 1, !.connected_ = TRUE],
          pq |-> Append(pq, 0), status |-> "OK"]

\* CubeConnectionImpl::Connect; pq[i] counts the PQfinish calls made on the
\* i-th connection PQconnectdb returned.
ImplConnect(impl, pq, outcome) ==
    IF impl.host_ = "" \/ impl.port_ = ""
      THEN [impl |-> impl, pq |-> pq, status |-> "InvalidArgument"]
    ELSE IF outcome = "null"
      THEN [impl |-> [impl EXCEPT !.conn_ = 0], pq |-> pq, status |-> "Internal"]
    ELSE IF outcome = "bad"
      THEN [impl |-> [impl EXCEPT !.conn_ = 0], pq |-> Append(pq, 1),
            status |-> "InvalidState"]
    ELSE [impl |-> [impl EXCEPT !.conn_ = Len(pq) + 1, !.connected_ = TRUE],
          pq |-> Append(pq, 0), status |-> "OK"]

\* CubeConnectionImpl::Disconnect
ImplDisconnect(impl, pq) ==
    [impl |-> [impl EXCEPT !.conn_ = 0, !.connected_ = FALSE],
     pq |-> IF impl.conn_ # 0 THEN [pq EXCEPT ![impl.conn_] = @ + 1] ELSE pq]

\* CubeConnectionImpl::~CubeConnectionImpl on the impl a unique_ptr gives
\* up (NullImpl when it holds none): a connected impl disconnects and then
\* calls error.release of an AdbcError that is all zeros.
ImplDestroy(impl, pq) ==
    IF impl.present /\ impl.connected_
      THEN [pq |-> ImplDisconnect(impl, pq).pq, null_release_calls |-> 1]
      ELSE [pq |-> pq, null_release_calls |-> 0]

\* CubeConnection::InitImpl: the new impl replaces the one impl_ held,
\* which is destroyed, and then connects.
ConnInitImpl ==
    /\ connection.object = "alive"
    /\ Len(connection.pq) < MaxConns
    /\ \E cfg \in ConnConfigs, outcome \in PQOutcomes, ub \in NullCallOutcomes :
         LET d == ImplDestroy(connection.impl, connection.pq)
             c == ImplConnect(NewImpl(cfg), d.pq, outcome)
             nulls == connection.null_release_calls + d.null_release_calls
         IN
         IF d.null_release_calls > 0 /\ ub = "crash"
           THEN /\ connection' = [object |-> "crashed", impl |-> NullImpl,
                                  pq |-> d.pq, null_release_calls |-> nulls]
                /\ UNCHANGED result
           ELSE /\ connection' = [object |-> "alive", impl |-> c.impl,
                                  pq |-> c.pq, null_release_calls |-> nulls]
                /\ result' = Returned("InitImpl", c.status, NoError)
    /\ UNCHANGED << single, instances, debug_file, threads, channel >>

\* CubeConnection::ReleaseImpl: Disconnect, then impl_.reset() destroys an
\* impl that is no longer connected.
ConnReleaseImpl ==
    /\ connection.object = "alive"
    /\ IF connection.impl.present
         THEN LET r == ImplDisconnect(connection.impl, connection.pq)
                  d == ImplDestroy(r.impl, r.pq)
              IN connection' =
                   [connection EXCEPT
                      !.impl = NullImpl, !.pq = d.pq,
                      !.null_release_calls = @ + d.null_release_calls]
         ELSE UNCHANGED connection
    /\ result' = Returned("ReleaseImpl", "OK", NoError)
    /\ UNCHANGED << single, instances, debug_file, threads, channel >>

\* The CubeConnection object is destroyed, and with it the impl it holds.
ConnDestroy ==
    /\ connection.object = "alive"
    /\ \E ub \in NullCallOutcomes :
         LET d == ImplDestroy(connection.impl, connection.pq) IN
         connection' =
           [object |-> IF d.null_release_calls > 0 /\ ub = "crash"
                         THEN "crashed" ELSE "destroyed",
            impl |-> NullImpl, pq |-> d.pq,
            null_release_calls |->
                connection.null_release_calls + d.null_release_calls]
    /\ result' = Returned("~CubeConnection", "OK", NoError)
    /\ UNCHANGED << single, instances, debug_file, threads, channel >>

\* A CubeConnection that has not been initialised.
ConnInitState ==
    /\ socket_fd_ = -1
    /\ authenticated_ = FALSE
    /\ session_id_ = ""
    /\ session_id_set = FALSE
    /\ server_version_ = ""
    /\ peer_open = FALSE
    /\ pc = "idle"
    /\ arrow_ipc_data = <<>>
    /\ received = <<>>
    /\ frames_read = 0
    /\ last_read = NoRead
    /\ wire_out = <<>>
    /\ reader = NoReader
    /\ out = CallerStream
    /\ result = Returned("none", ADBC_STATUS_OK, NoError)
    /\ fd_closes = 0
    /\ array_out = CallerArray
    /\ schema_out = CallerSchema
    /\ yielded = <<>>
    /\ eos_reports = 0
    /\ release_calls = 0
    /\ instances = [i \in Instances |-> "none"]
    /\ debug_file = NoFile
    /\ threads = [t \in Threads |-> "none"]
    /\ channel = <<>>
    /\ connection = [NoConnection EXCEPT !.object = "alive"]

ConnNext == ConnInitImpl \/ ConnReleaseImpl \/ ConnDestroy

ConnSpec == ConnInitState /\ [][ConnNext]_vars

\* =========================================================== properties
\* The latest ReadMessage handed a message to its caller.
Dispatched == last_read.called /\ ~last_read.empty

\* The latest ReadMessage belongs to an ExecuteQuery call.
InQuery == pc = "draining" \/ result.op = "ExecuteQuery"

\* Concatenation of the ipc_bytes of the QueryResponseBatch messages of a
\* sequence of dispatched messages, in order.
RECURSIVE ConcatBatches(_)
ConcatBatches(msgs) ==
    IF msgs = <<>> THEN <<>>
    ELSE (IF Head(msgs).type = MsgQueryResponseBatch THEN Head(msgs).bytes ELSE <<>>)
           \o ConcatBatches(Tail(msgs))

\* C1: a turn of ExecuteQuery's loop that dispatches a QueryResponseSchema
\* message leaves the accumulator as it was: the schema bytes are discarded.
C1_SchemaBytesDiscarded ==
    [][ ( /\ pc = "draining"
          /\ ~last_read'.empty
          /\ last_read'.msg.type = MsgQueryResponseSchema )
        => arrow_ipc_data' = arrow_ipc_data ]_vars

\* C2: the buffer a reader is built from is exactly the concatenation of the
\* ipc_bytes of the QueryResponseBatch messages read, in the order read.
C2_ReaderGetsBatchesInOrder ==
    (pc = "idle" /\ reader.constructed) => reader.buffer_ = ConcatBatches(received)

\* C3: authenticated implies that the socket is open and that session_id
\* has been set, in every reachable state.
C3_AuthenticatedImpliesOpenAndSession ==
    authenticated_ => (socket_fd_ >= 0 /\ session_id_set)

\* C3 witness: an authenticated client whose latest call failed.
C3_Witness ==
    /\ authenticated_
    /\ result.op = "ExecuteQuery"
    /\ result.status = ADBC_STATUS_IO

\* The errors an operation returns because of the state it was called in.
StateRejections ==
    { <<"Already connected">>, <<"Not connected">>, <<"Already authenticated">>,
      <<"Not authenticated">> }

\* The latest operation failed on I/O, framing, protocol, server error or
\* authentication.
Failed(r) == r.status # ADBC_STATUS_OK /\ r.error \notin StateRejections

\* C4: once Authenticate or ExecuteQuery has returned an error, every
\* Connect, Authenticate or ExecuteQuery that returns before the next Close
\* returns InvalidState (the rejection "Not authenticated" of ExecuteQuery,
\* which carries another status, is let pass here).
C4_OnlyCloseAfterError ==
    [][ ( /\ Failed(result)
          /\ result.op \in {"Authenticate", "ExecuteQuery"}
          /\ pc' = "idle"
          /\ result'.op # "Close" )
        => ( \/ result'.status = ADBC_STATUS_INVALID_STATE
             \/ result'.error = <<"Not authenticated">> ) ]_vars

\* A step in which ExecuteQuery is called on a client that is not
\* authenticated and returns.
UnauthenticatedCall ==
    /\ pc = "idle"
    /\ ~(IsConnected /\ authenticated_)
    /\ pc' = "idle"
    /\ result'.op = "ExecuteQuery"

\* C5 as claimed: ExecuteQuery on a client that is not authenticated returns
\* InvalidState, writes nothing and leaves the client state unchanged.
C5_UnauthenticatedIsInvalidState ==
    [][ UnauthenticatedCall
        => ( /\ result'.status = ADBC_STATUS_INVALID_STATE
             /\ wire_out' = <<>>
             /\ UNCHANGED client ) ]_vars

\* C5 amended: ExecuteQuery on a client that is not authenticated returns
\* InvalidState when there is no open socket and Unauthenticated when the
\* socket is open; it writes nothing and leaves the client state unchanged.
C5_UnauthenticatedRejected ==
    [][ UnauthenticatedCall
        => ( /\ result'.status = IF IsConnected THEN ADBC_STATUS_UNAUTHENTICATED
                                                ELSE ADBC_STATUS_INVALID_STATE
             /\ wire_out' = <<>>
             /\ frames_read' = 0
             /\ UNCHANGED client ) ]_vars

\* C5 witness: a connected, unauthenticated client after a rejected query.
C5_Witness ==
    /\ IsConnected /\ ~authenticated_
    /\ result.op = "ExecuteQuery"
    /\ result.status = ADBC_STATUS_UNAUTHENTICATED
    /\ wire_out = <<>>

\* The error returns from inside ExecuteQuery's loop.
DrainErrors ==
    { "Empty query response", "Query error [", "Unexpected message type: ",
      "Failed to decode response: " }

\* C6: when ExecuteQuery returns an error the caller's stream holds no
\* reader, and on an error return from inside the loop no reader was built
\* from the partial accumulator.
C6_NoReaderOnError ==
    (pc = "idle" /\ result.op = "ExecuteQuery" /\ result.status # ADBC_STATUS_OK)
    => ( /\ out = CallerStream
         /\ ~reader.alive
         /\ (result.error # <<>> /\ result.error[1] \in DrainErrors)
               => ~reader.constructed )

\* C6 witness: a server error after IPC bytes were accumulated.
C6_Witness ==
    /\ pc = "idle" /\ result.op = "ExecuteQuery"
    /\ result.status = ADBC_STATUS_UNKNOWN
    /\ arrow_ipc_data # <<>>
    /\ ~reader.constructed

\* C7: a decodable Error message ends the query at once: ExecuteQuery has
\* returned the server's code and message, and the Error frame is the last
\* frame read for that query.
C7_ServerErrorVerbatim ==
    (Dispatched /\ InQuery /\ last_read.msg.type = MsgError /\ last_read.msg.wf)
    => ( /\ pc = "idle"
         /\ result.status = ADBC_STATUS_UNKNOWN
         /\ result.error = <<"Query error [", last_read.msg.code, "]: ",
                             last_read.msg.message>>
         /\ frames_read = Len(received) + 1 )

\* C7 witness: an Error message that followed a dispatched response.
C7_Witness ==
    /\ Dispatched /\ InQuery
    /\ last_read.msg.type = MsgError /\ last_read.msg.wf
    /\ last_read.msg.message = "no such table"
    /\ Len(received) > 0

QueryMessageTypes ==
    { MsgQueryResponseSchema, MsgQueryResponseBatch, MsgQueryComplete, MsgError }

\* C8: a turn of the loop that reads a message of any other type ends
\* ExecuteQuery with a Protocol error (INVALID_DATA); the message is neither
\* skipped nor accumulated.
C8_UnexpectedTypeIsProtocolError ==
    [][ ( /\ pc = "draining"
          /\ ~last_read'.empty
          /\ last_read'.msg.type \notin QueryMessageTypes )
        => ( /\ pc' = "idle"
             /\ result'.op = "ExecuteQuery"
             /\ result'.status = ADBC_STATUS_INVALID_DATA
             /\ arrow_ipc_data' = arrow_ipc_data
             /\ received' = received
             /\ ~reader'.constructed ) ]_vars

\* C8 witness: an AuthResponse read while a query was being drained.
C8_Witness ==
    /\ Dispatched /\ result.op = "ExecuteQuery" /\ pc = "idle"
    /\ last_read.msg.type = MsgAuthResponse
    /\ frames_read > 1

\* The latest ReadMessage read a whole prefix that declares a bad length.
BadLength == last_read.called /\ last_read.hdr_read = 4
               /\ ~LengthAccepted(last_read.length)

\* C9: a declared length of 0 or above 100 MiB is rejected without reading
\* a payload byte and the calling operation reports a Protocol error; any
\* other length is accepted.
C9_BadLengthIsProtocolError ==
    /\ BadLength => ( /\ last_read.empty
                      /\ last_read.payload_read = 0
                      /\ pc = "idle"
                      /\ result.status = ADBC_STATUS_INVALID_DATA )
    /\ (last_read.called /\ last_read.hdr_read = 4
          /\ last_read.length > 0 /\ last_read.length <= 104857600
          /\ last_read.payload_read = last_read.length) => ~last_read.empty

\* The latest ReadMessage ran out of bytes in the prefix or in the payload.
ShortRead ==
    /\ last_read.called
    /\ \/ last_read.hdr_read < 4
       \/ LengthAccepted(last_read.length)
            /\ last_read.payload_read < last_read.length

\* C10: a read that ends before the prefix or the declared payload is
\* complete ends the operation with an Io error, and a message is handed
\* on only when the whole prefix and exactly `length` payload bytes were read.
C10_ShortReadIsIoError ==
    /\ ShortRead => ( /\ last_read.empty
                      /\ pc = "idle"
                      /\ result.status = ADBC_STATUS_IO )
    /\ Dispatched => ( /\ last_read.hdr_read = 4
                       /\ last_read.payload_read = last_read.length )

\* C10 witness: the peer closed one byte before the end of a payload.
C10_Witness ==
    /\ ShortRead
    /\ last_read.hdr_read = 4
    /\ last_read.payload_read > 0
    /\ result.op = "ExecuteQuery"

\* A step in which a call of the named client operation returns.
ConnectStep == pc = "idle" /\ pc' = "idle" /\ result'.op = "Connect"
AuthenticateStep == pc = "idle" /\ pc' = "idle" /\ result'.op = "Authenticate"
CloseStep == pc = "idle" /\ pc' = "idle" /\ result'.op = "Close"

\* C11: Connect on a client whose socket is open returns InvalidState and
\* leaves socket, authenticated flag, session_id and server_version as they
\* were; nothing is written, read or closed.
C11_ConnectOnOpenSocketRejected ==
    [][ (ConnectStep /\ IsConnected)
        => ( /\ result'.status = ADBC_STATUS_INVALID_STATE
             /\ socket_fd_' = socket_fd_
             /\ authenticated_' = authenticated_
             /\ session_id_' = session_id_
             /\ session_id_set' = session_id_set
             /\ server_version_' = server_version_
             /\ peer_open' = peer_open
             /\ wire_out' = <<>>
             /\ frames_read' = 0
             /\ fd_closes' = 0 ) ]_vars

\* C11 witness: Connect was rejected on an authenticated session.
C11_Witness ==
    /\ result.op = "Connect"
    /\ result.status = ADBC_STATUS_INVALID_STATE
    /\ IsConnected /\ authenticated_ /\ session_id_ = "sess-1"
    /\ server_version_ = "cube-1"

\* The latest ReadMessage handed on a well-formed message of type `t`.
Answered(t) == Dispatched /\ last_read.msg.type = t /\ last_read.msg.wf

\* C12: Connect succeeds only on a handshake response whose version is
\* PROTOCOL_VERSION, and then stores its server_version; a response with
\* another version gives a Protocol error and no stored server_version.
C12_HandshakeVersionChecked ==
    [][ (ConnectStep /\ ~IsConnected)
        => ( /\ result'.status = ADBC_STATUS_OK
                  => ( /\ Answered(MsgHandshakeResponse)'
                       /\ last_read'.msg.version = PROTOCOL_VERSION
                       /\ server_version_' = last_read'.msg.server_version
                       /\ socket_fd_' >= 0 )
             /\ ( Answered(MsgHandshakeResponse)'
                    /\ last_read'.msg.version # PROTOCOL_VERSION )
                  => ( /\ result'.status = ADBC_STATUS_INVALID_DATA
                       /\ server_version_' = ""
                       /\ socket_fd_' = -1 ) ) ]_vars

\* C12 witness: Connect read a handshake response of another version.
C12_Witness ==
    /\ result.op = "Connect"
    /\ Answered(MsgHandshakeResponse)
    /\ last_read.msg.version # PROTOCOL_VERSION
    /\ last_read.msg.server_version # ""

\* C13: Authenticate sets authenticated_ and stores session_id_ only on an
\* AuthResponse with success = true; with success = false it returns
\* Unauthenticated, authenticated_ stays false and no session_id is stored.
C13_AuthenticateNeedsSuccess ==
    [][ AuthenticateStep
        => ( /\ (authenticated_' /\ ~authenticated_)
                  => ( /\ result'.status = ADBC_STATUS_OK
                       /\ Answered(MsgAuthResponse)'
                       /\ last_read'.msg.success
                       /\ session_id_set'
                       /\ session_id_' = last_read'.msg.session_id )
             /\ (session_id_set' /\ ~session_id_set) => authenticated_'
             /\ result'.status = ADBC_STATUS_OK => authenticated_'
             /\ (Answered(MsgAuthResponse)' /\ ~last_read'.msg.success)
                  => ( /\ result'.status = ADBC_STATUS_UNAUTHENTICATED
                       /\ ~authenticated_'
                       /\ ~session_id_set'
                       /\ session_id_' = "" ) ) ]_vars

\* C13 witness: the server refused the token and sent a session id along.
C13_Witness ==
    /\ result.op = "Authenticate"
    /\ result.status = ADBC_STATUS_UNAUTHENTICATED
    /\ Answered(MsgAuthResponse)
    /\ ~last_read.msg.success
    /\ last_read.msg.session_id = "sess-1"

\* C14: Close never fails and leaves the socket closed, authenticated_
\* false and session_id_ cleared; a Close on a client that has no socket,
\* as right after a Close, closes no descriptor, and a Close right after a
\* Close changes nothing else either.
C14_CloseIdempotent ==
    [][ CloseStep
        => ( /\ result'.status = ADBC_STATUS_OK
             /\ socket_fd_' = -1
             /\ ~authenticated_'
             /\ session_id_' = "" /\ ~session_id_set'
             /\ ~IsConnected => fd_closes' = 0
             /\ result.op = "Close"
                  => ( /\ fd_closes' = 0
                       /\ UNCHANGED << client, peer_open, pc, arrow_ipc_data,
                                       received, frames_read, last_read,
                                       wire_out, reader, out, result,
                                       consumer >> ) ) ]_vars

\* C14 witness: a client that had run a query and lost its socket since is
\* closed once more.
C14_Witness ==
    /\ result.op = "Close"
    /\ fd_closes = 0
    /\ reader.constructed

\* A step in which a call of the named stream callback returns.
GetNextStep == result'.op = "get_next"
GetSchemaStep == result'.op = "get_schema"

\* The stream reported end-of-stream / produced an array in this step.
EndOfStream == result'.status = NANOARROW_OK /\ array_out'.release = "null"

\* The 8 bytes at offset `off` of `buffer` are the EOS marker.
EosAt(buffer, off) ==
    /\ off + 8 <= Len(buffer)
    /\ SubSeq(buffer, off + 1, off + 4) = ARROW_IPC_MAGIC
    /\ SubSeq(buffer, off + 5, off + 8) = <<0, 0, 0, 0>>

\* C15: get_next on a reader whose cursor is at the EOS marker produces no
\* array and, unless an allocation fails, sets finished_ and reports
\* end-of-stream.
C15_EosEndsStream ==
    [][ ( /\ GetNextStep
          /\ reader.schema_initialized_ /\ ~reader.finished_
          /\ EosAt(reader.buffer_, reader.offset_) )
        => ( /\ yielded' = yielded
             /\ result'.status # ENOMEM
                  => ( /\ reader'.finished_
                       /\ EndOfStream
                       /\ eos_reports' = eos_reports + 1 ) ) ]_vars

\* C16: on a stream of a schema message, n >= 1 RecordBatch messages and
\* the EOS marker, the arrays produced so far are those of the first
\* batches in stream order, the cursor stands behind the last batch
\* produced, and end-of-stream is reported only after all n.
C16_OneArrayPerBatch ==
    \A n \in 1..MaxBatches :
      (reader.schema_initialized_ /\ reader.buffer_ = IpcStream(n))
        => ( /\ Len(yielded) <= n
             /\ \A i \in 1..Len(yielded) : yielded[i] = BatchValue(i)
             /\ reader.offset_ = Len(IpcSchemaMessage)
                                   + Len(yielded) * Len(IpcBatch(1))
             /\ eos_reports > 0 => Len(yielded) = n )

\* C17: once get_next has reported end-of-stream, finished_ stays set, no
\* array is produced any more and every further get_next reports
\* end-of-stream, whatever get_schema calls come in between.
C17_EndOfStreamIsFinal ==
    [][ eos_reports > 0
        => ( /\ reader'.finished_
             /\ yielded' = yielded
             /\ GetNextStep => (EndOfStream /\ eos_reports' = eos_reports + 1) ) ]_vars

\* C17 witness: end-of-stream was reported twice around a get_schema call.
C17_Witness ==
    /\ eos_reports = 2
    /\ result.op = "get_next"
    /\ Len(yielded) = 1
    /\ schema_out.release = "ArrowSchemaRelease"

\* The declared metadata size at `off` exceeds the bytes left after it.
SizeExceeds(buffer, off) ==
    \/ buffer[off + 8] >= 128
    \/ ReadLE32(buffer, off + 4) > Len(buffer) - (off + 8)

\* A message header at `off` that has a bad continuation marker or declares
\* more metadata than the buffer holds.
BadBoundary(buffer, off) ==
    /\ off + 8 <= Len(buffer)
    /\ \/ SubSeq(buffer, off + 1, off + 4) # ARROW_IPC_MAGIC
       \/ SizeExceeds(buffer, off)

\* C18: a bad message header is an error, neither end-of-stream nor data,
\* for the schema message Init reads and for every message get_next reads.
C18_BadBoundaryIsError ==
    /\ [] ( (reader.constructed /\ BadBoundary(reader.buffer_, 0))
              => ( /\ ~reader.schema_initialized_
                   /\ out.release # "CubeArrowStreamRelease" ) )
    /\ [][ ( /\ GetNextStep
             /\ reader.schema_initialized_ /\ ~reader.finished_
             /\ BadBoundary(reader.buffer_, reader.offset_) )
           => ( /\ result'.status \notin {NANOARROW_OK, ENOMSG}
                /\ yielded' = yielded
                /\ eos_reports' = eos_reports ) ]_vars

\* C19: when ExecuteQuery has returned an error, the caller's stream is
\* zeroed: its release callback is null.
C19_OutZeroedOnError ==
    (pc = "idle" /\ result.op = "ExecuteQuery" /\ result.status # ADBC_STATUS_OK)
      => (out.release = "null" /\ out.private_data = "null")

\* C20: get_schema on an initialized reader changes neither the reader nor
\* what get_next has produced, and a successful call returns a copy of the
\* stored schema that owns its memory; no step changes the stored schema.
C20_GetSchemaIdempotent ==
    [][ /\ reader.schema_initialized_ => reader'.schema_ = reader.schema_
        /\ (GetSchemaStep /\ reader.schema_initialized_)
             => ( /\ reader' = reader
                  /\ UNCHANGED << out, array_out, yielded, eos_reports >>
                  /\ result'.status = NANOARROW_OK
                       => ( /\ schema_out'.release = "ArrowSchemaRelease"
                            /\ schema_out'.format = reader.schema_.format
                            /\ schema_out'.children = reader.schema_.children
                            /\ schema_out'.owner = "caller" ) ) ]_vars

\* C20 witness: a schema fetched after the stream had ended.
C20_Witness ==
    /\ result.op = "get_schema"
    /\ result.status = NANOARROW_OK
    /\ schema_out.format = "+s"
    /\ Len(yielded) = 1
    /\ eos_reports > 0

\* A step in which the stream's release callback returns.
ReleaseStep == result'.op = "release"

\* GetNext has nothing more to read: finished_ is set or fewer than 8 bytes
\* are left at the cursor.
AtEndOfStream(rdr) ==
    rdr.schema_initialized_
      /\ (rdr.finished_ \/ rdr.offset_ + 8 > Len(rdr.buffer_))

C22_ReleaseDestroysOnce ==
    [][ ReleaseStep
        => ( /\ out'.release = "null"
             /\ out'.private_data = "null"
             /\ ~reader'.alive
             /\ reader'.deletes = 1
             /\ release_calls > 0 => (reader' = reader /\ out' = out) ) ]_vars

\* C22 witness: the callback ran twice on a stream that had produced an array.
C22_Witness ==
    /\ release_calls = 2
    /\ reader.deletes = 1
    /\ out.release = "null"
    /\ Len(yielded) = 1

\* C23: the schema is built at most once, by Init; GetNext yields an array
\* only on a reader whose Init built the schema, and without a built schema
\* GetSchema and GetNext return an error and leave their output untouched.
C23_SchemaBuiltBeforeBatches ==
    [][ /\ reader.schema_initialized_ => reader' = [reader EXCEPT !.finished_ = reader'.finished_]
        /\ reader'.schema_initialized_
             => (reader'.inits = 1 /\ reader'.schema_ = StructSchema)
        /\ yielded' # yielded => reader.schema_initialized_
        /\ (~reader.schema_initialized_ /\ result'.op = "GetNext")
             => ( /\ result'.status = EINVAL
                  /\ array_out' = CallerArray
                  /\ yielded' = yielded
                  /\ reader' = reader )
        /\ (~reader.schema_initialized_ /\ result'.op = "GetSchema")
             => ( /\ result'.status = EINVAL
                  /\ schema_out' = CallerSchema
                  /\ reader' = reader ) ]_vars

\* C23 witness: GetNext and GetSchema were refused on a reader whose Init
\* had failed on a bad continuation marker.
C23_Witness ==
    /\ reader.inits = 1 /\ ~reader.schema_initialized_
    /\ Len(reader.buffer_) >= 8
    /\ result.op = "GetNext" /\ result.status = EINVAL
    /\ schema_out = CallerSchema /\ array_out = CallerArray

\* The reader's cursor stands on a Schema message.
SchemaMessageAt(rdr) ==
    /\ rdr.offset_ + Len(IpcSchemaMessage) <= Len(rdr.buffer_)
    /\ SubSeq(rdr.buffer_, rdr.offset_ + 1, rdr.offset_ + Len(IpcSchemaMessage))
         = IpcSchemaMessage

\* C24: a get_next that finds a Schema message at the cursor after the
\* schema has been built fails: it returns an error status, yields no array
\* and reports no end-of-stream.
C24_SecondSchemaFails ==
    [][ ( /\ GetNextStep
          /\ reader.schema_initialized_ /\ ~reader.finished_
          /\ SchemaMessageAt(reader) )
        => ( /\ result'.status # NANOARROW_OK
             /\ yielded' = yielded
             /\ eos_reports' = eos_reports ) ]_vars

\* The fields an exported schema declares.
SchemaFields(schema) ==
    [ i \in 1..Len(schema.children) |->
        Field(schema.children[i].name, schema.children[i].format,
              schema.children[i].flags = "ARROW_FLAG_NULLABLE") ]

\* C25: for a stream whose Schema message declares supported fields, a
\* schema returned by get_schema has exactly those fields: the same count
\* and per field the same name, type and nullability.
C25_SchemaMatchesMessage ==
    \A fields \in SupportedFieldLists :
      ( /\ reader.buffer_ = IpcTypedStream(fields)
        /\ result.op = "get_schema" /\ result.status = NANOARROW_OK )
        => SchemaFields(schema_out) = fields

\* C26: the array get_next produces for a RecordBatch has the length the
\* batch declares as its row count, and its column has the null count the
\* batch declares in the column's FieldNode.
C26_ArrayHasDeclaredLength ==
    [][ \A b \in DeclaredBatches :
          ( /\ GetNextStep
            /\ reader.buffer_ = IpcSizedStream(b)
            /\ reader.offset_ = Len(IpcSchemaMessage) /\ ~reader.finished_
            /\ yielded' # yielded )
          => ( /\ array_out'.length = b.rows
               /\ array_out'.children_null_count = << b.nulls >> ) ]_vars

\* C27: for a stream whose Schema message declares a field of a type that is
\* not implemented, initialization fails: the schema is not built, no
\* stream is exported and neither a schema nor an array reaches the consumer.
C27_UnsupportedTypeFailsInit ==
    \A fields \in UnsupportedFieldLists :
      reader.buffer_ = IpcTypedStream(fields)
        => ( /\ ~reader.schema_initialized_
             /\ out.release # "CubeArrowStreamRelease"
             /\ schema_out.release # "ArrowSchemaRelease"
             /\ yielded = <<>> )

\* C28: no location is written by the steps of more than one instance: the
\* file at the debug path has at most one writer among the readers of a
\* process.
C28_NoSharedLocation ==
    Cardinality(debug_file.writers) <= 1

\* C29: ExecuteQuery does not serialize its callers: a thread that has not
\* entered yet can always enter and send, whatever the other thread is
\* doing inside ExecuteQuery, and each read takes the frame at the head of
\* the socket without regard to the query it answers.
C29_NoInternalSerialization ==
    \A t \in Threads :
      /\ threads[t].at = "idle" => ENABLED ThreadExecuteQuerySend(t)
      /\ (threads[t].at = "reading" /\ channel # <<>>)
           => ENABLED ThreadReadMessage(t)

\* C29 witness: a thread's ExecuteQuery has accumulated a batch that answers
\* the other thread's query.
C29_Witness ==
    \E t \in Threads :
      \E i \in 1..Len(threads[t].arrow_ipc_data) :
        threads[t].arrow_ipc_data[i] # t

\* C30: a query with empty SQL text is rejected before any byte is sent,
\* so the request frame carrying the empty text is never the one written
\* to the socket.
C30_EmptySqlNeverSent ==
    wire_out # EncodeQueryRequest(<<>>)

\* The loop of ExecuteQuery goes round again after this read.
LoopsOn(rd) ==
    /\ ~rd.empty
    /\ rd.msg.type \in {MsgQueryResponseSchema, MsgQueryResponseBatch}
    /\ rd.msg.wf

\* C31: a turn of ExecuteQuery's loop stays in the loop exactly when it read
\* a decodable Schema or Batch message, so no frame is read after the first
\* QueryComplete; and a call that is in its loop eventually returns.
C31_LoopEndsAtFirstTerminator ==
    /\ [][ pc = "draining"
             => /\ (pc' = "draining" <=> LoopsOn(last_read'))
                /\ frames_read' = frames_read + 1 ]_vars
    /\ [][ pc = "idle" /\ result'.op = "ExecuteQuery" /\ pc' = "idle"
             => frames_read' = 0 ]_vars
    /\ (pc = "draining" ~> pc = "idle")

\* C31 witness: ExecuteQuery returned at a QueryComplete that followed a
\* Schema or Batch message, having read exactly those frames.
C31_Witness ==
    /\ pc = "idle" /\ result.op = "ExecuteQuery"
    /\ Dispatched /\ last_read.msg.type = MsgQueryComplete /\ last_read.msg.wf
    /\ Len(received) >= 1
    /\ frames_read = Len(received) + 1

\* ExecuteQuery has returned success.
QuerySucceeded ==
    pc = "idle" /\ result.op = "ExecuteQuery" /\ result.status = ADBC_STATUS_OK

\* C32: no step of ExecuteQuery changes the socket, the authenticated flag,
\* session_id or server_version; after a successful ExecuteQuery the client
\* is connected and authenticated with its peer still there, and the next
\* ExecuteQuery passes the state checks: it writes its request and enters
\* its loop, or fails in the write with an Io error.
C32_SuccessReturnsToReady ==
    /\ [](QuerySucceeded => (IsConnected /\ authenticated_ /\ peer_open))
    /\ [][ (pc = "draining" \/ pc' = "draining" \/ result'.op = "ExecuteQuery")
             => UNCHANGED client ]_vars
    /\ [][ (QuerySucceeded /\ frames_read' = 0)
             => ( /\ pc' = "draining" => wire_out' # <<>>
                  /\ pc' = "idle" => result'.status = ADBC_STATUS_IO ) ]_vars

\* C32 witness: after a successful ExecuteQuery a second call on the same
\* client has sent its request and is reading the answer.
C32_Witness ==
    /\ pc = "draining"
    /\ result.op = "ExecuteQuery" /\ result.status = ADBC_STATUS_OK
    /\ wire_out = EncodeQueryRequest(<<83, 69, 76>>)
    /\ frames_read >= 1
    /\ socket_fd_ = 3 /\ authenticated_ /\ session_id_ = "sess-1"

\* C33: Authenticate on a client that is not connected or is already
\* authenticated returns InvalidState, writes and reads nothing and leaves
\* authenticated and session_id alone; so session_id is assigned only by an
\* Authenticate that found the client not yet authenticated.
C33_AuthenticateStateChecked ==
    /\ [][ (AuthenticateStep /\ (~IsConnected \/ authenticated_))
             => ( /\ result'.status = ADBC_STATUS_INVALID_STATE
                  /\ wire_out' = <<>>
                  /\ frames_read' = 0
                  /\ UNCHANGED << authenticated_, session_id_, session_id_set >> ) ]_vars
    /\ [][ (AuthenticateStep /\ result'.status = ADBC_STATUS_OK)
             => (IsConnected /\ ~authenticated_) ]_vars

\* C33 witness: an authenticated client after a second, rejected Authenticate.
C33_Witness ==
    /\ IsConnected /\ authenticated_ /\ session_id_ = "sess-1"
    /\ result.op = "Authenticate"
    /\ result.status = ADBC_STATUS_INVALID_STATE
    /\ result.error = <<"Already authenticated">>
    /\ wire_out = <<>>

\* Connect returned an error other than "Already connected".
ConnectFailed ==
    /\ pc = "idle" /\ result.op = "Connect"
    /\ result.status # ADBC_STATUS_OK
    /\ result.error # <<"Already connected">>

\* C34: after a failed Connect the client holds no socket, is not
\* authenticated and has no server_version; a socket the call had created
\* was closed once, and the next Connect is not refused as already connected.
C34_FailedConnectLeavesNoSocket ==
    ConnectFailed
      => ( /\ socket_fd_ = -1
           /\ ~authenticated_
           /\ server_version_ = ""
           /\ fd_closes = (IF result.error = <<"Failed to create socket: ">>
                             THEN 0 ELSE 1)
           /\ ~ConnectStateCheck.rejected )

\* C34 witness: Connect failed in the handshake, after the socket was
\* connected and the request written.
C34_Witness ==
    /\ ConnectFailed
    /\ wire_out # <<>>
    /\ fd_closes = 1
    /\ socket_fd_ = -1

\* C35: when ExecuteQuery has returned success, its accumulator was not
\* empty, the reader is alive with its schema initialized, and the caller's
\* stream has its release callback and the reader as private_data; when
\* QueryComplete arrived with an empty accumulator, ExecuteQuery returned an
\* error and left the caller's stream alone.
C35_SuccessMeansInitializedReader ==
    (pc = "idle" /\ result.op = "ExecuteQuery")
      => ( /\ result.status = ADBC_STATUS_OK
             => ( /\ arrow_ipc_data # <<>>
                  /\ Answered(MsgQueryComplete)
                  /\ reader.alive /\ reader.schema_initialized_
                  /\ reader.buffer_ = arrow_ipc_data
                  /\ out.release = "CubeArrowStreamRelease"
                  /\ out.private_data = "reader" )
           /\ (Answered(MsgQueryComplete) /\ arrow_ipc_data = <<>>)
             => ( /\ result.status = ADBC_STATUS_INVALID_DATA
                  /\ out = CallerStream
                  /\ ~reader.constructed ) )

\* C35 witness: a successful ExecuteQuery that accumulated two messages.
C35_Witness ==
    /\ QuerySucceeded
    /\ Len(received) = 2
    /\ reader.schema_initialized_
    /\ out.private_data = "reader"

\* C36: once ExecuteQuery has returned, the reader it made is either
\* destroyed, exactly once, and not referenced by the caller's stream, or
\* alive and the private_data of that stream, whose release callback is
\* still set.
C36_StreamOwnsReader ==
    (pc = "idle" /\ reader.constructed)
      => ( /\ reader.alive <=> out.private_data = "reader"
           /\ reader.alive => ( /\ reader.deletes = 0
                                /\ out.release = "CubeArrowStreamRelease" )
           /\ ~reader.alive => reader.deletes = 1 )

\* C36 witness: the consumer released the stream of a successful query once;
\* the reader is destroyed and the stream no longer refers to it.
C36_Witness ==
    /\ pc = "idle" /\ reader.constructed /\ reader.schema_initialized_
    /\ release_calls = 1
    /\ ~reader.alive /\ reader.deletes = 1
    /\ out.private_data = "null"

\* C37: every index of buffer_ that Init or GetNext reads lies inside the
\* buffer, whatever the buffer holds and in whatever order the reader's
\* methods are called.
C37_ReadsInBounds ==
    [][ /\ result'.op = "Init"
          => InitReads(reader) \subseteq 0..(Len(reader.buffer_) - 1)
        /\ result'.op = "GetNext"
          => GetNextReads(reader) \subseteq 0..(Len(reader.buffer_) - 1) ]_vars

\* C37 witness: GetNext built an array from a buffer of fewer than 16 bytes,
\* with the default value because there is nothing 16 bytes before the end.
C37_Witness ==
    /\ result.op = "GetNext" /\ result.status = NANOARROW_OK
    /\ Len(reader.buffer_) < 16
    /\ array_out.value = <<1, 0, 0, 0, 0, 0, 0, 0>>

\* C38: connected_ is set only while conn_ points to a connection; no libpq
\* connection is finished twice, and one that is not finished yet is the
\* one the connection object's current impl points to.
C38_ConnectionsFinishedOnce ==
    /\ connection.impl.present
         => (connection.impl.connected_ => connection.impl.conn_ # 0)
    /\ \A i \in 1..Len(connection.pq) :
         /\ connection.pq[i] <= 1
         /\ connection.pq[i] = 0
              => ( /\ connection.object = "alive"
                   /\ connection.impl.present
                   /\ connection.impl.conn_ = i )

\* C38 witness: InitImpl, ReleaseImpl and InitImpl again: the first
\* connection is finished and the impl holds the second.
C38_Witness ==
    /\ connection.pq = <<1, 0>>
    /\ connection.impl.present
    /\ connection.impl.connected_ /\ connection.impl.conn_ = 2
    /\ connection.null_release_calls = 0

\* C39: no release callback is called through a null pointer.
C39_ReleaseNeverNull ==
    connection.null_release_calls = 0

====
